---- MODULE Spec2Model ----
\* MOS 6510 core of rust64: the tick state machine of CPU::update, the
\* interrupt acknowledgement sequences, the stack helpers and the bus
\* dispatcher (src/src/c64/cpu.rs), with the decode table of
\* src/src/cpu/opcodes.rs.
EXTENDS Integers, Sequences, FiniteSets, TLC

VARIABLES PC, SP, P, A, X, Y,            \* registers
          instruction,                   \* instruction descriptor
          ba_low, cia_irq, vic_irq, nmi, \* bus-stall flag and interrupt latches
          irq_cycles_left, nmi_cycles_left,
          first_nmi_cycle, first_irq_cycle,
          state,                         \* CPUState
          dfff_byte,
          mem, io_on,                    \* memory controller: RAM image and I/O overlay flag
          vic_last_byte, chip_byte, chip_cb, \* VIC-II / CIA collaborators as seen through the bus
          overflow_checks,               \* build profile: TRUE = arithmetic overflow panics
          failure,                       \* "none" or the panic that ended the program
          cycle,                         \* bus-cycle index the host passes to the next update call
          booted,                        \* the host has called reset
          events,                        \* signals the collaborators have raised so far
          bus,                           \* bus accesses of the last update call
          cia_age, vic_age, nmi_age,     \* update calls since the latch was last asserted
          stalls,                        \* consecutive update calls just held at the opcode fetch
          resumed,                       \* the last update call was the first after such a hold
          sp0,                           \* SP before the first stack operation (stack laws)
          stk,                           \* bytes pushed and not yet popped (stack laws)
          popped,                        \* result of the last pop
          before                         \* registers, P and memory before the last instruction run

vars == <<PC, SP, P, A, X, Y, instruction, ba_low, cia_irq, vic_irq, nmi,
          irq_cycles_left, nmi_cycles_left, first_nmi_cycle, first_irq_cycle,
          state, dfff_byte, mem, io_on, vic_last_byte, chip_byte, chip_cb,
          overflow_checks, failure, cycle, booted, events, bus,
          cia_age, vic_age, nmi_age, stalls, resumed, sp0, stk, popped, before>>

-----------------------------------------------------------------------------
\* Bounds of the model

MaxCycle == 14
MaxEvents == 3
MaxStack == 3
AgeCap == 3
StallCap == 2

\* interrupt recognition delay in bus cycles (section 4.1)
SettleDelay == 2

-----------------------------------------------------------------------------
\* Program constants

FlagCarry == 1
FlagZero == 2
FlagInterruptDisable == 4
FlagDecimalMode == 8
FlagBreak == 16
FlagUnused == 32
FlagOverflow == 64
FlagNegative == 128

NMI_VECTOR == 65530
RESET_VECTOR == 65532
IRQ_VECTOR == 65534

None == <<>>

-----------------------------------------------------------------------------
\* Fixed-width helpers

Bit(v, n) == (v \div (2 ^ n)) % 2

And8(a, b) ==
  LET f[i \in 0..8] == IF i = 8 THEN 0 ELSE Bit(a, i) * Bit(b, i) * (2 ^ i) + f[i + 1]
  IN f[0]

Or8(a, b) == a + b - And8(a, b)

Xor8(a, b) == a + b - 2 * And8(a, b)

Not8(a) == 255 - a

\* u8 -> i8 and u16 -> i16 reinterpretation (Rust `as i8`, `as i16`)
AsI8(v) == IF v >= 128 THEN v - 256 ELSE v

AsI16(v) == IF v >= 32768 THEN v - 65536 ELSE v

\* (a - b) >= k in wrapping u32 arithmetic, for a, b < 2^31 and small k:
\* when a < b the difference wraps to 2^32 - (b - a), which is above k
SubU32AtLeast(a, b, k) == IF a >= b THEN a - b >= k ELSE TRUE

-----------------------------------------------------------------------------
\* The CPU and its collaborators gathered in one record, so that the
\* sequential code of a handler composes as function application.

S ==
  [PC |-> PC, SP |-> SP, P |-> P, A |-> A, X |-> X, Y |-> Y,
   instruction |-> instruction, ba_low |-> ba_low,
   cia_irq |-> cia_irq, vic_irq |-> vic_irq, nmi |-> nmi,
   irq_cycles_left |-> irq_cycles_left, nmi_cycles_left |-> nmi_cycles_left,
   first_nmi_cycle |-> first_nmi_cycle, first_irq_cycle |-> first_irq_cycle,
   state |-> state, dfff_byte |-> dfff_byte,
   mem |-> mem, io_on |-> io_on, vic_last_byte |-> vic_last_byte,
   chip_byte |-> chip_byte, chip_cb |-> chip_cb,
   overflow_checks |-> overflow_checks, failure |-> failure, bus |-> bus]

Commit(t) ==
  /\ PC' = t.PC /\ SP' = t.SP /\ P' = t.P /\ A' = t.A /\ X' = t.X /\ Y' = t.Y
  /\ instruction' = t.instruction /\ ba_low' = t.ba_low
  /\ cia_irq' = t.cia_irq /\ vic_irq' = t.vic_irq /\ nmi' = t.nmi
  /\ irq_cycles_left' = t.irq_cycles_left /\ nmi_cycles_left' = t.nmi_cycles_left
  /\ first_nmi_cycle' = t.first_nmi_cycle /\ first_irq_cycle' = t.first_irq_cycle
  /\ state' = t.state /\ dfff_byte' = t.dfff_byte
  /\ mem' = t.mem /\ io_on' = t.io_on /\ vic_last_byte' = t.vic_last_byte
  /\ chip_byte' = t.chip_byte /\ chip_cb' = t.chip_cb
  /\ overflow_checks' = t.overflow_checks /\ failure' = t.failure /\ bus' = t.bus

\* A Rust panic: the program ends; the first panic is the one reported.
Fail(s, msg) == IF s.failure = "none" THEN [s EXCEPT !.failure = msg] ELSE s

Failed(s) == s.failure # "none"

\* Arithmetic overflow: a panic when the build checks overflow, a wrap otherwise.
Ov(s, overflows) ==
  IF overflows /\ s.overflow_checks THEN Fail(s, "arithmetic overflow") ELSE s

Ret(s, v) == [s |-> s, v |-> v]

Log(s, op, addr, v) == [s EXCEPT !.bus = Append(@, <<op, addr, v>>)]

-----------------------------------------------------------------------------
\* Status flags

set_status_flag(s, flag, value) ==
  [s EXCEPT !.P = IF value THEN Or8(@, flag) ELSE And8(@, Not8(flag))]

get_status_flag(s, flag) == And8(s.P, flag) # 0

set_zn_flags(s, value) ==
  set_status_flag(set_status_flag(s, FlagZero, value = 0),
                  FlagNegative, AsI8(value) < 0)

-----------------------------------------------------------------------------
\* Interrupt latches

set_vic_irq(s, val) == [s EXCEPT !.vic_irq = val]

set_nmi(s, val) == [s EXCEPT !.nmi = val]

set_cia_irq(s, val) == [s EXCEPT !.cia_irq = val]

-----------------------------------------------------------------------------
\* Memory controller (external collaborator): flat RAM, little-endian words.

FillByte == 234

mem_read_byte(m, addr) == IF addr \in DOMAIN m THEN m[addr] ELSE FillByte

mem_write_byte(m, addr, value) == (addr :> value) @@ m

mem_read_word_le(m, addr) ==
  mem_read_byte(m, addr) + 256 * mem_read_byte(m, (addr + 1) % 65536)

-----------------------------------------------------------------------------
\* Bus dispatcher

write_callback_action(s, cb) ==
  CASE cb = "TriggerVICIrq" -> set_vic_irq(s, TRUE)
    [] cb = "ClearVICIrq"   -> set_vic_irq(s, FALSE)
    [] cb = "TriggerCIAIrq" -> set_cia_irq(s, TRUE)
    [] cb = "ClearCIAIrq"   -> set_cia_irq(s, FALSE)
    [] cb = "TriggerNMI"    -> set_nmi(s, TRUE)
    [] cb = "ClearNMI"      -> set_nmi(s, FALSE)
    [] OTHER                -> s

read_callback_action(s, cb) ==
  CASE cb = "TriggerCIAIrq" -> set_cia_irq(s, TRUE)
    [] cb = "ClearCIAIrq"   -> set_cia_irq(s, FALSE)
    [] cb = "TriggerNMI"    -> set_nmi(s, TRUE)
    [] cb = "ClearNMI"      -> set_nmi(s, FALSE)
    [] OTHER                -> s

InVIC(addr) == addr >= 53248 /\ addr <= 54271       \* $D000-$D3FF
InColorRAM(addr) == addr >= 55296 /\ addr <= 56319  \* $D800-$DBFF
InCIA1(addr) == addr >= 56320 /\ addr <= 56575      \* $DC00-$DCFF
InCIA2(addr) == addr >= 56576 /\ addr <= 56831      \* $DD00-$DDFF
InDF00(addr) == addr >= 57088 /\ addr <= 57247      \* $DF00-$DF9F

\* a write_byte that stores the whole byte in color RAM
write_byte_full_color(s, addr, value) ==
  IF Failed(s) THEN s
  ELSE
    LET io_enabled == s.io_on
        w == Log(s, "W", addr, value)
        ram(v) == [w EXCEPT !.mem = mem_write_byte(@, addr, v)]
    IN CASE InVIC(addr) ->
              IF io_enabled THEN write_callback_action(w, w.chip_cb) ELSE ram(value)
         [] InColorRAM(addr) ->
              IF io_enabled THEN ram(value) ELSE ram(value)
         [] InCIA1(addr) ->
              IF io_enabled THEN write_callback_action(w, w.chip_cb) ELSE ram(value)
         [] InCIA2(addr) ->
              IF io_enabled THEN write_callback_action(w, w.chip_cb) ELSE ram(value)
         [] OTHER -> ram(value)

write_byte(s, addr, value) ==
  IF Failed(s) THEN s
  ELSE
    LET io_enabled == s.io_on
        w == Log(s, "W", addr, value)
        ram(v) == [w EXCEPT !.mem = mem_write_byte(@, addr, v)]
    IN CASE InVIC(addr) ->
              IF io_enabled THEN write_callback_action(w, w.chip_cb) ELSE ram(value)
         [] InColorRAM(addr) ->
              IF io_enabled THEN ram(And8(value, 15)) ELSE ram(value)
         [] InCIA1(addr) ->
              IF io_enabled THEN write_callback_action(w, w.chip_cb) ELSE ram(value)
         [] InCIA2(addr) ->
              IF io_enabled THEN write_callback_action(w, w.chip_cb) ELSE ram(value)
         [] OTHER -> ram(value)

\* a read_byte that goes to the chips whatever io_on holds
read_byte_ignores_io(s, addr) ==
  IF Failed(s) THEN Ret(s, 0)
  ELSE
    LET io_enabled == TRUE
        ram == mem_read_byte(s.mem, addr)
        out(t, byte) == Ret(Log(t, "R", addr, byte), byte)
    IN CASE InVIC(addr) ->
              IF io_enabled THEN out(s, s.chip_byte) ELSE out(s, ram)
         [] InColorRAM(addr) ->
              IF io_enabled
              THEN out(s, Or8(And8(ram, 15), And8(s.vic_last_byte, 240)))
              ELSE out(s, ram)
         [] InCIA1(addr) ->
              IF io_enabled
              THEN out(read_callback_action(s, s.chip_cb), s.chip_byte)
              ELSE out(s, ram)
         [] InCIA2(addr) ->
              IF io_enabled
              THEN out(read_callback_action(s, s.chip_cb), s.chip_byte)
              ELSE out(s, ram)
         [] InDF00(addr) ->
              IF io_enabled THEN out(s, s.vic_last_byte) ELSE out(s, ram)
         [] addr = 57343 ->
              IF io_enabled
              THEN out([s EXCEPT !.dfff_byte = Not8(@)], Not8(s.dfff_byte))
              ELSE out(s, ram)
         [] OTHER -> out(s, ram)

\* a read_byte that returns the complement at $DFFF without storing it
read_byte_keeps_dfff(s, addr) ==
  IF Failed(s) THEN Ret(s, 0)
  ELSE
    LET io_enabled == s.io_on
        ram == mem_read_byte(s.mem, addr)
        out(t, byte) == Ret(Log(t, "R", addr, byte), byte)
    IN CASE InVIC(addr) ->
              IF io_enabled THEN out(s, s.chip_byte) ELSE out(s, ram)
         [] InColorRAM(addr) ->
              IF io_enabled
              THEN out(s, Or8(And8(ram, 15), And8(s.vic_last_byte, 240)))
              ELSE out(s, ram)
         [] InCIA1(addr) ->
              IF io_enabled
              THEN out(read_callback_action(s, s.chip_cb), s.chip_byte)
              ELSE out(s, ram)
         [] InCIA2(addr) ->
              IF io_enabled
              THEN out(read_callback_action(s, s.chip_cb), s.chip_byte)
              ELSE out(s, ram)
         [] InDF00(addr) ->
              IF io_enabled THEN out(s, s.vic_last_byte) ELSE out(s, ram)
         [] addr = 57343 ->
              IF io_enabled
              THEN out(s, Not8(s.dfff_byte))
              ELSE out(s, ram)
         [] OTHER -> out(s, ram)

read_byte(s, addr) ==
  IF Failed(s) THEN Ret(s, 0)
  ELSE
    LET io_enabled == s.io_on
        ram == mem_read_byte(s.mem, addr)
        out(t, byte) == Ret(Log(t, "R", addr, byte), byte)
    IN CASE InVIC(addr) ->
              IF io_enabled THEN out(s, s.chip_byte) ELSE out(s, ram)
         [] InColorRAM(addr) ->
              IF io_enabled
              THEN out(s, Or8(And8(ram, 15), And8(s.vic_last_byte, 240)))
              ELSE out(s, ram)
         [] InCIA1(addr) ->
              IF io_enabled
              THEN out(read_callback_action(s, s.chip_cb), s.chip_byte)
              ELSE out(s, ram)
         [] InCIA2(addr) ->
              IF io_enabled
              THEN out(read_callback_action(s, s.chip_cb), s.chip_byte)
              ELSE out(s, ram)
         [] InDF00(addr) ->
              IF io_enabled THEN out(s, s.vic_last_byte) ELSE out(s, ram)
         [] addr = 57343 ->
              IF io_enabled
              THEN out([s EXCEPT !.dfff_byte = Not8(@)], Not8(s.dfff_byte))
              ELSE out(s, ram)
         [] OTHER -> out(s, ram)

read_idle(s, addr) == read_byte(s, addr).s

\* CPU::read_word_le goes to the memory controller directly.
read_word_le(s, addr) ==
  LET lo == mem_read_byte(s.mem, addr)
      hi == mem_read_byte(s.mem, (addr + 1) % 65536)
  IN Ret(Log(Log(s, "R", addr, lo), "R", (addr + 1) % 65536, hi), lo + 256 * hi)

next_byte(s) ==
  IF Failed(s) THEN Ret(s, 0)
  ELSE
    LET advance(r) ==
          LET t == Ov(r.s, r.s.PC + 1 > 65535)
          IN IF Failed(t) THEN Ret(t, 0)
             ELSE Ret([t EXCEPT !.PC = (@ + 1) % 65536], r.v)
    IN advance(read_byte(s, s.PC))

next_word(s) ==
  IF Failed(s) THEN Ret(s, 0)
  ELSE
    LET advance(r) ==
          LET t == Ov(r.s, r.s.PC + 2 > 65535)
          IN IF Failed(t) THEN Ret(t, 0)
             ELSE Ret([t EXCEPT !.PC = (@ + 2) % 65536], r.v)
    IN advance(read_word_le(s, s.PC))

-----------------------------------------------------------------------------
\* Stack: page $01

push_byte(s, value) ==
  IF Failed(s) THEN s
  ELSE
    LET t == Ov(s, s.SP = 0)                       \* self.SP -= 0x01
        sp1 == (s.SP - 1) % 256
        u == Ov(t, sp1 + 1 > 255)                  \* self.SP + 0x01
        newSP == (sp1 + 1) % 256
    IN IF Failed(u) THEN u
       ELSE write_byte([u EXCEPT !.SP = sp1], 256 + newSP, value)

pop_byte(s) ==
  IF Failed(s) THEN Ret(s, 0)
  ELSE
    LET t == Ov(s, s.SP + 1 > 255)                 \* self.SP + 0x01
        addr == 256 + ((s.SP + 1) % 256)
        bump(r) == Ret([r.s EXCEPT !.SP = (@ + 1) % 256], r.v)   \* self.SP += 0x01
    IN IF Failed(t) THEN Ret(t, 0)
       ELSE bump(read_byte(t, addr))

\* a push_word that stores the low byte first
push_word_low_first(s, value) ==
  push_byte(push_byte(s, value % 256), (value \div 256) % 256)

push_word(s, value) ==
  push_byte(push_byte(s, (value \div 256) % 256), value % 256)

pop_word(s) ==
  LET high(lo) ==
        LET join(hi) == Ret(hi.s, hi.v * 256 + lo.v)
        IN join(pop_byte(lo.s))
  IN high(pop_byte(s))

-----------------------------------------------------------------------------
\* Interrupt acknowledgement sequences

\* a process_nmi whose pushes wait for the bus like its reads
process_nmi_pushes_stall(s) ==
  LET n == s.nmi_cycles_left
      fin(t) == IF Failed(t) THEN Ret(t, FALSE)
                ELSE Ret([t EXCEPT !.nmi_cycles_left = n - 1], n - 1 = 0)
      jump(r) == [r.s EXCEPT !.PC = r.v]
  IN CASE n = 7 -> IF s.ba_low THEN Ret(s, FALSE) ELSE fin(read_idle(s, s.PC))
       [] n = 6 -> IF s.ba_low THEN Ret(s, FALSE) ELSE fin(read_idle(s, s.PC))
       [] n = 5 -> fin(push_byte(s, s.PC \div 256))
       [] n = 4 -> IF s.ba_low THEN Ret(s, FALSE)
                   ELSE fin(push_byte(s, s.PC % 256))
       [] n = 3 -> fin(set_status_flag(push_byte(s, s.P), FlagInterruptDisable, TRUE))
       [] n = 2 -> IF s.ba_low THEN Ret(s, FALSE) ELSE fin(s)
       [] n = 1 -> IF s.ba_low THEN Ret(s, FALSE)
                   ELSE fin(jump(read_word_le(s, NMI_VECTOR)))
       [] OTHER -> Ret(Fail(s, "Invalid NMI cycle"), FALSE)

process_nmi(s) ==
  LET n == s.nmi_cycles_left
      fin(t) == IF Failed(t) THEN Ret(t, FALSE)
                ELSE Ret([t EXCEPT !.nmi_cycles_left = n - 1], n - 1 = 0)
      jump(r) == [r.s EXCEPT !.PC = r.v]
  IN CASE n = 7 -> IF s.ba_low THEN Ret(s, FALSE) ELSE fin(read_idle(s, s.PC))
       [] n = 6 -> IF s.ba_low THEN Ret(s, FALSE) ELSE fin(read_idle(s, s.PC))
       [] n = 5 -> fin(push_byte(s, s.PC \div 256))
       [] n = 4 -> fin(push_byte(s, s.PC % 256))
       [] n = 3 -> fin(set_status_flag(push_byte(s, s.P), FlagInterruptDisable, TRUE))
       [] n = 2 -> IF s.ba_low THEN Ret(s, FALSE) ELSE fin(s)
       [] n = 1 -> IF s.ba_low THEN Ret(s, FALSE)
                   ELSE fin(jump(read_word_le(s, NMI_VECTOR)))
       [] OTHER -> Ret(Fail(s, "Invalid NMI cycle"), FALSE)

\* a process_irq that sets InterruptDisable before it pushes P
process_irq_disables_first(s) ==
  LET n == s.irq_cycles_left
      fin(t) == IF Failed(t) THEN Ret(t, FALSE)
                ELSE Ret([t EXCEPT !.irq_cycles_left = n - 1], n - 1 = 0)
      jump(r) == [r.s EXCEPT !.PC = r.v]
      push_status(b) == push_byte(b, b.P)
  IN CASE n = 7 -> IF s.ba_low THEN Ret(s, FALSE) ELSE fin(read_idle(s, s.PC))
       [] n = 6 -> IF s.ba_low THEN Ret(s, FALSE) ELSE fin(read_idle(s, s.PC))
       [] n = 5 -> fin(push_byte(s, s.PC \div 256))
       [] n = 4 -> fin(push_byte(s, s.PC % 256))
       [] n = 3 -> fin(push_status(
                         set_status_flag(set_status_flag(s, FlagBreak, FALSE),
                                         FlagInterruptDisable, TRUE)))
       [] n = 2 -> IF s.ba_low THEN Ret(s, FALSE) ELSE fin(s)
       [] n = 1 -> IF s.ba_low THEN Ret(s, FALSE)
                   ELSE fin(jump(read_word_le(s, IRQ_VECTOR)))
       [] OTHER -> Ret(Fail(s, "Invalid IRQ cycle"), FALSE)

\* a process_irq whose idle sub-cycle never ends
process_irq_idles_forever(s) ==
  LET n == s.irq_cycles_left
      fin(t) == IF Failed(t) THEN Ret(t, FALSE)
                ELSE Ret([t EXCEPT !.irq_cycles_left = n - 1], n - 1 = 0)
      jump(r) == [r.s EXCEPT !.PC = r.v]
      push_status(b) == push_byte(b, b.P)
  IN CASE n = 7 -> IF s.ba_low THEN Ret(s, FALSE) ELSE fin(read_idle(s, s.PC))
       [] n = 6 -> IF s.ba_low THEN Ret(s, FALSE) ELSE fin(read_idle(s, s.PC))
       [] n = 5 -> fin(push_byte(s, s.PC \div 256))
       [] n = 4 -> fin(push_byte(s, s.PC % 256))
       [] n = 3 -> fin(set_status_flag(
                         push_status(set_status_flag(s, FlagBreak, FALSE)),
                         FlagInterruptDisable, TRUE))
       [] n = 2 -> Ret(s, FALSE)
       [] n = 1 -> IF s.ba_low THEN Ret(s, FALSE)
                   ELSE fin(jump(read_word_le(s, IRQ_VECTOR)))
       [] OTHER -> Ret(Fail(s, "Invalid IRQ cycle"), FALSE)

process_irq(s) ==
  LET n == s.irq_cycles_left
      fin(t) == IF Failed(t) THEN Ret(t, FALSE)
                ELSE Ret([t EXCEPT !.irq_cycles_left = n - 1], n - 1 = 0)
      jump(r) == [r.s EXCEPT !.PC = r.v]
      push_status(b) == push_byte(b, b.P)
  IN CASE n = 7 -> IF s.ba_low THEN Ret(s, FALSE) ELSE fin(read_idle(s, s.PC))
       [] n = 6 -> IF s.ba_low THEN Ret(s, FALSE) ELSE fin(read_idle(s, s.PC))
       [] n = 5 -> fin(push_byte(s, s.PC \div 256))
       [] n = 4 -> fin(push_byte(s, s.PC % 256))
       [] n = 3 -> fin(set_status_flag(
                         push_status(set_status_flag(s, FlagBreak, FALSE)),
                         FlagInterruptDisable, TRUE))
       [] n = 2 -> IF s.ba_low THEN Ret(s, FALSE) ELSE fin(s)
       [] n = 1 -> IF s.ba_low THEN Ret(s, FALSE)
                   ELSE fin(jump(read_word_le(s, IRQ_VECTOR)))
       [] OTHER -> Ret(Fail(s, "Invalid IRQ cycle"), FALSE)

-----------------------------------------------------------------------------
\* Operand access of the executing instruction

get_operand(s) ==
  IF Failed(s) THEN Ret(s, 0)
  ELSE IF s.instruction.is_rmw THEN Ret(s, s.instruction.rmw_buffer)
  ELSE CASE s.instruction.addr_mode = "Implied" ->
              Ret(Fail(s, "Can't get operand value!"), 0)
         [] s.instruction.addr_mode = "Accumulator" -> Ret(s, s.A)
         [] s.instruction.addr_mode = "Immediate" -> next_byte(s)
         [] OTHER -> read_byte(s, s.instruction.operand_addr)

set_operand(s, val) ==
  IF Failed(s) THEN s
  ELSE CASE s.instruction.addr_mode = "Implied" ->
              Fail(s, "Can't set implied operand value!")
         [] s.instruction.addr_mode = "Accumulator" -> [s EXCEPT !.A = val]
         [] s.instruction.addr_mode = "Immediate" ->
              Fail(s, "Can't set immediate operand value!")
         [] s.instruction.addr_mode = "Relative" ->
              Fail(s, "Can't set relative operand value!")
         [] OTHER -> write_byte(s, s.instruction.operand_addr, val)

-----------------------------------------------------------------------------
\* Decode table

OpTable ==
  (0 :> <<"BRK", 7, "Implied">>) @@
  (1 :> <<"ORA", 6, "IndexedIndirectX">>) @@
  (2 :> <<"HLT", 1, "Implied">>) @@
  (3 :> <<"SLO", 8, "IndexedIndirectX">>) @@
  (4 :> <<"NOP", 3, "Zeropage">>) @@
  (5 :> <<"ORA", 3, "Zeropage">>) @@
  (6 :> <<"ASL", 5, "Zeropage">>) @@
  (7 :> <<"SLO", 5, "Zeropage">>) @@
  (8 :> <<"PHP", 3, "Implied">>) @@
  (9 :> <<"ORA", 2, "Immediate">>) @@
  (10 :> <<"ASL", 2, "Accumulator">>) @@
  (11 :> <<"ANC", 2, "Immediate">>) @@
  (12 :> <<"NOP", 4, "Absolute">>) @@
  (13 :> <<"ORA", 4, "Absolute">>) @@
  (14 :> <<"ASL", 6, "Absolute">>) @@
  (15 :> <<"SLO", 6, "Absolute">>) @@
  (16 :> <<"BPL", 2, "Relative">>) @@
  (17 :> <<"ORA", 5, "IndirectIndexedY">>) @@
  (18 :> <<"HLT", 1, "Implied">>) @@
  (19 :> <<"SLO", 8, "IndirectIndexedY">>) @@
  (20 :> <<"NOP", 4, "ZeropageIndexedX">>) @@
  (21 :> <<"ORA", 4, "ZeropageIndexedX">>) @@
  (22 :> <<"ASL", 6, "ZeropageIndexedX">>) @@
  (23 :> <<"SLO", 6, "ZeropageIndexedX">>) @@
  (24 :> <<"CLC", 2, "Implied">>) @@
  (25 :> <<"ORA", 4, "AbsoluteIndexedY">>) @@
  (26 :> <<"NOP", 2, "Implied">>) @@
  (27 :> <<"SLO", 7, "AbsoluteIndexedY">>) @@
  (28 :> <<"NOP", 4, "AbsoluteIndexedX">>) @@
  (29 :> <<"ORA", 4, "AbsoluteIndexedX">>) @@
  (30 :> <<"ASL", 7, "AbsoluteIndexedX">>) @@
  (31 :> <<"SLO", 7, "AbsoluteIndexedX">>) @@
  (32 :> <<"JSR", 6, "Absolute">>) @@
  (33 :> <<"AND", 6, "IndexedIndirectX">>) @@
  (34 :> <<"HLT", 1, "Implied">>) @@
  (35 :> <<"RLA", 8, "IndexedIndirectX">>) @@
  (36 :> <<"BIT", 3, "Zeropage">>) @@
  (37 :> <<"AND", 3, "Zeropage">>) @@
  (38 :> <<"ROL", 5, "Zeropage">>) @@
  (39 :> <<"RLA", 5, "Zeropage">>) @@
  (40 :> <<"PLP", 4, "Implied">>) @@
  (41 :> <<"AND", 2, "Immediate">>) @@
  (42 :> <<"ROL", 2, "Accumulator">>) @@
  (43 :> <<"ANC", 2, "Immediate">>) @@
  (44 :> <<"BIT", 4, "Absolute">>) @@
  (45 :> <<"AND", 4, "Absolute">>) @@
  (46 :> <<"ROL", 6, "Absolute">>) @@
  (47 :> <<"RLA", 6, "Absolute">>) @@
  (48 :> <<"BMI", 2, "Relative">>) @@
  (49 :> <<"AND", 5, "IndirectIndexedY">>) @@
  (50 :> <<"HLT", 1, "Implied">>) @@
  (51 :> <<"RLA", 8, "IndirectIndexedY">>) @@
  (52 :> <<"NOP", 4, "ZeropageIndexedX">>) @@
  (53 :> <<"AND", 4, "ZeropageIndexedX">>) @@
  (54 :> <<"ROL", 6, "ZeropageIndexedX">>) @@
  (55 :> <<"RLA", 6, "ZeropageIndexedX">>) @@
  (56 :> <<"SEC", 2, "Implied">>) @@
  (57 :> <<"AND", 4, "AbsoluteIndexedY">>) @@
  (58 :> <<"NOP", 2, "Implied">>) @@
  (59 :> <<"RLA", 7, "AbsoluteIndexedY">>) @@
  (60 :> <<"NOP", 4, "AbsoluteIndexedX">>) @@
  (61 :> <<"AND", 4, "AbsoluteIndexedX">>) @@
  (62 :> <<"ROL", 7, "AbsoluteIndexedX">>) @@
  (63 :> <<"RLA", 7, "AbsoluteIndexedX">>) @@
  (64 :> <<"RTI", 6, "Implied">>) @@
  (65 :> <<"EOR", 6, "IndexedIndirectX">>) @@
  (66 :> <<"HLT", 1, "Implied">>) @@
  (67 :> <<"SRE", 8, "IndexedIndirectX">>) @@
  (68 :> <<"NOP", 3, "Implied">>) @@
  (69 :> <<"EOR", 3, "Zeropage">>) @@
  (70 :> <<"LSR", 5, "Zeropage">>) @@
  (71 :> <<"SRE", 5, "Zeropage">>) @@
  (72 :> <<"PHA", 3, "Implied">>) @@
  (73 :> <<"EOR", 2, "Immediate">>) @@
  (74 :> <<"LSR", 2, "Accumulator">>) @@
  (75 :> <<"ALR", 2, "Immediate">>) @@
  (76 :> <<"JMP", 3, "Absolute">>) @@
  (77 :> <<"EOR", 4, "Absolute">>) @@
  (78 :> <<"LSR", 6, "Absolute">>) @@
  (79 :> <<"SRE", 6, "Absolute">>) @@
  (80 :> <<"BVC", 2, "Relative">>) @@
  (81 :> <<"EOR", 5, "IndirectIndexedY">>) @@
  (82 :> <<"HLT", 1, "Implied">>) @@
  (83 :> <<"SRE", 8, "IndirectIndexedY">>) @@
  (84 :> <<"NOP", 4, "ZeropageIndexedX">>) @@
  (85 :> <<"EOR", 4, "ZeropageIndexedX">>) @@
  (86 :> <<"LSR", 6, "ZeropageIndexedX">>) @@
  (87 :> <<"SRE", 6, "ZeropageIndexedX">>) @@
  (88 :> <<"CLI", 2, "Implied">>) @@
  (89 :> <<"EOR", 4, "AbsoluteIndexedY">>) @@
  (90 :> <<"NOP", 2, "Implied">>) @@
  (91 :> <<"SRE", 7, "AbsoluteIndexedY">>) @@
  (92 :> <<"NOP", 4, "AbsoluteIndexedX">>) @@
  (93 :> <<"EOR", 4, "AbsoluteIndexedX">>) @@
  (94 :> <<"LSR", 7, "AbsoluteIndexedX">>) @@
  (95 :> <<"SRE", 7, "AbsoluteIndexedX">>) @@
  (96 :> <<"RTS", 6, "Implied">>) @@
  (97 :> <<"ADC", 6, "IndexedIndirectX">>) @@
  (98 :> <<"HLT", 1, "Implied">>) @@
  (99 :> <<"RRA", 8, "IndexedIndirectX">>) @@
  (100 :> <<"NOP", 3, "Zeropage">>) @@
  (101 :> <<"ADC", 3, "Zeropage">>) @@
  (102 :> <<"ROR", 5, "Zeropage">>) @@
  (103 :> <<"RRA", 5, "Zeropage">>) @@
  (104 :> <<"PLA", 4, "Implied">>) @@
  (105 :> <<"ADC", 2, "Immediate">>) @@
  (106 :> <<"ROR", 2, "Accumulator">>) @@
  (107 :> <<"ARR", 2, "Implied">>) @@
  (108 :> <<"JMP", 5, "Indirect">>) @@
  (109 :> <<"ADC", 4, "Absolute">>) @@
  (110 :> <<"ROR", 6, "Absolute">>) @@
  (111 :> <<"RRA", 6, "Absolute">>) @@
  (112 :> <<"BVS", 2, "Relative">>) @@
  (113 :> <<"ADC", 5, "IndirectIndexedY">>) @@
  (114 :> <<"HLT", 1, "Implied">>) @@
  (115 :> <<"RRA", 8, "IndirectIndexedY">>) @@
  (116 :> <<"NOP", 4, "ZeropageIndexedX">>) @@
  (117 :> <<"ADC", 4, "ZeropageIndexedX">>) @@
  (118 :> <<"ROR", 6, "ZeropageIndexedX">>) @@
  (119 :> <<"RRA", 6, "ZeropageIndexedX">>) @@
  (120 :> <<"SEI", 2, "Implied">>) @@
  (121 :> <<"ADC", 4, "AbsoluteIndexedY">>) @@
  (122 :> <<"NOP", 2, "Implied">>) @@
  (123 :> <<"RRA", 7, "AbsoluteIndexedY">>) @@
  (124 :> <<"NOP", 4, "AbsoluteIndexedX">>) @@
  (125 :> <<"ADC", 4, "AbsoluteIndexedX">>) @@
  (126 :> <<"ROR", 7, "AbsoluteIndexedX">>) @@
  (127 :> <<"RRA", 7, "AbsoluteIndexedX">>) @@
  (128 :> <<"NOP", 2, "Immediate">>) @@
  (129 :> <<"STA", 6, "IndexedIndirectX">>) @@
  (130 :> <<"NOP", 2, "Immediate">>) @@
  (131 :> <<"SAX", 6, "IndexedIndirectX">>) @@
  (132 :> <<"STY", 3, "Zeropage">>) @@
  (133 :> <<"STA", 3, "Zeropage">>) @@
  (134 :> <<"STX", 3, "Zeropage">>) @@
  (135 :> <<"SAX", 3, "Zeropage">>) @@
  (136 :> <<"DEY", 2, "Implied">>) @@
  (137 :> <<"NOP", 2, "Immediate">>) @@
  (138 :> <<"TXA", 2, "Implied">>) @@
  (139 :> <<"XAA", 2, "Immediate">>) @@
  (140 :> <<"STY", 4, "Absolute">>) @@
  (141 :> <<"STA", 4, "Absolute">>) @@
  (142 :> <<"STX", 4, "Absolute">>) @@
  (143 :> <<"SAX", 4, "Absolute">>) @@
  (144 :> <<"BCC", 2, "Relative">>) @@
  (145 :> <<"STA", 6, "IndirectIndexedY">>) @@
  (146 :> <<"HLT", 1, "Implied">>) @@
  (147 :> <<"AHX", 6, "IndirectIndexedY">>) @@
  (148 :> <<"STY", 4, "ZeropageIndexedX">>) @@
  (149 :> <<"STA", 4, "ZeropageIndexedX">>) @@
  (150 :> <<"STX", 4, "ZeropageIndexedY">>) @@
  (151 :> <<"SAX", 4, "ZeropageIndexedY">>) @@
  (152 :> <<"TYA", 2, "Implied">>) @@
  (153 :> <<"STA", 5, "AbsoluteIndexedY">>) @@
  (154 :> <<"TXS", 2, "Implied">>) @@
  (155 :> <<"TAS", 5, "AbsoluteIndexedY">>) @@
  (156 :> <<"SHY", 5, "AbsoluteIndexedX">>) @@
  (157 :> <<"STA", 5, "AbsoluteIndexedX">>) @@
  (158 :> <<"SHX", 5, "AbsoluteIndexedY">>) @@
  (159 :> <<"AHX", 5, "AbsoluteIndexedY">>) @@
  (160 :> <<"LDY", 2, "Immediate">>) @@
  (161 :> <<"LDA", 6, "IndexedIndirectX">>) @@
  (162 :> <<"LDX", 2, "Immediate">>) @@
  (163 :> <<"LAX", 6, "IndexedIndirectX">>) @@
  (164 :> <<"LDY", 3, "Zeropage">>) @@
  (165 :> <<"LDA", 3, "Zeropage">>) @@
  (166 :> <<"LDX", 3, "Zeropage">>) @@
  (167 :> <<"LAX", 3, "Zeropage">>) @@
  (168 :> <<"TAY", 2, "Implied">>) @@
  (169 :> <<"LDA", 2, "Immediate">>) @@
  (170 :> <<"TAX", 2, "Implied">>) @@
  (171 :> <<"LAX", 2, "Immediate">>) @@
  (172 :> <<"LDY", 4, "Absolute">>) @@
  (173 :> <<"LDA", 4, "Absolute">>) @@
  (174 :> <<"LDX", 4, "Absolute">>) @@
  (175 :> <<"LAX", 4, "Absolute">>) @@
  (176 :> <<"BCS", 2, "Relative">>) @@
  (177 :> <<"LDA", 5, "IndirectIndexedY">>) @@
  (178 :> <<"HLT", 1, "Implied">>) @@
  (179 :> <<"LAX", 5, "IndirectIndexedY">>) @@
  (180 :> <<"LDY", 4, "ZeropageIndexedX">>) @@
  (181 :> <<"LDA", 4, "ZeropageIndexedX">>) @@
  (182 :> <<"LDX", 4, "ZeropageIndexedY">>) @@
  (183 :> <<"LAX", 4, "ZeropageIndexedY">>) @@
  (184 :> <<"CLV", 2, "Implied">>) @@
  (185 :> <<"LDA", 4, "AbsoluteIndexedY">>) @@
  (186 :> <<"TSX", 2, "Implied">>) @@
  (187 :> <<"LAS", 4, "AbsoluteIndexedY">>) @@
  (188 :> <<"LDY", 4, "AbsoluteIndexedX">>) @@
  (189 :> <<"LDA", 4, "AbsoluteIndexedX">>) @@
  (190 :> <<"LDX", 4, "AbsoluteIndexedY">>) @@
  (191 :> <<"LAX", 4, "AbsoluteIndexedY">>) @@
  (192 :> <<"CPY", 2, "Immediate">>) @@
  (193 :> <<"CMP", 6, "IndexedIndirectX">>) @@
  (194 :> <<"NOP", 2, "Immediate">>) @@
  (195 :> <<"DCP", 8, "IndexedIndirectX">>) @@
  (196 :> <<"CPY", 3, "Zeropage">>) @@
  (197 :> <<"CMP", 3, "Zeropage">>) @@
  (198 :> <<"DEC", 5, "Zeropage">>) @@
  (199 :> <<"DCP", 5, "Zeropage">>) @@
  (200 :> <<"INY", 2, "Implied">>) @@
  (201 :> <<"CMP", 2, "Immediate">>) @@
  (202 :> <<"DEX", 2, "Implied">>) @@
  (203 :> <<"AXS", 2, "Immediate">>) @@
  (204 :> <<"CPY", 4, "Absolute">>) @@
  (205 :> <<"CMP", 4, "Absolute">>) @@
  (206 :> <<"DEC", 6, "Absolute">>) @@
  (207 :> <<"DCP", 6, "Absolute">>) @@
  (208 :> <<"BNE", 2, "Relative">>) @@
  (209 :> <<"CMP", 5, "IndirectIndexedY">>) @@
  (210 :> <<"HLT", 1, "Implied">>) @@
  (211 :> <<"DCP", 8, "IndirectIndexedY">>) @@
  (212 :> <<"NOP", 4, "ZeropageIndexedX">>) @@
  (213 :> <<"CMP", 4, "ZeropageIndexedX">>) @@
  (214 :> <<"DEC", 6, "ZeropageIndexedX">>) @@
  (215 :> <<"DCP", 6, "ZeropageIndexedX">>) @@
  (216 :> <<"CLD", 2, "Implied">>) @@
  (217 :> <<"CMP", 4, "AbsoluteIndexedY">>) @@
  (218 :> <<"NOP", 2, "Implied">>) @@
  (219 :> <<"DCP", 7, "AbsoluteIndexedY">>) @@
  (220 :> <<"NOP", 4, "AbsoluteIndexedX">>) @@
  (221 :> <<"CMP", 4, "AbsoluteIndexedX">>) @@
  (222 :> <<"DEC", 7, "AbsoluteIndexedX">>) @@
  (223 :> <<"DCP", 7, "AbsoluteIndexedX">>) @@
  (224 :> <<"CPX", 2, "Immediate">>) @@
  (225 :> <<"SBC", 6, "IndexedIndirectX">>) @@
  (226 :> <<"NOP", 2, "Immediate">>) @@
  (227 :> <<"ISC", 8, "IndexedIndirectX">>) @@
  (228 :> <<"CPX", 3, "Zeropage">>) @@
  (229 :> <<"SBC", 3, "Zeropage">>) @@
  (230 :> <<"INC", 5, "Zeropage">>) @@
  (231 :> <<"ISC", 5, "Zeropage">>) @@
  (232 :> <<"INX", 2, "Implied">>) @@
  (233 :> <<"SBC", 2, "Immediate">>) @@
  (234 :> <<"NOP", 2, "Implied">>) @@
  (235 :> <<"SBC", 2, "Immediate">>) @@
  (236 :> <<"CPX", 4, "Implied">>) @@
  (237 :> <<"SBC", 4, "Absolute">>) @@
  (238 :> <<"INC", 6, "Absolute">>) @@
  (239 :> <<"ISC", 6, "Absolute">>) @@
  (240 :> <<"BEQ", 2, "Relative">>) @@
  (241 :> <<"SBC", 5, "IndirectIndexedY">>) @@
  (242 :> <<"HLT", 1, "Implied">>) @@
  (243 :> <<"ISC", 8, "IndirectIndexedY">>) @@
  (244 :> <<"NOP", 4, "ZeropageIndexedX">>) @@
  (245 :> <<"SBC", 4, "ZeropageIndexedX">>) @@
  (246 :> <<"INC", 6, "ZeropageIndexedX">>) @@
  (247 :> <<"ISC", 6, "ZeropageIndexedX">>) @@
  (248 :> <<"SED", 2, "Implied">>) @@
  (249 :> <<"SBC", 4, "AbsoluteIndexedY">>) @@
  (250 :> <<"NOP", 2, "Implied">>) @@
  (251 :> <<"ISC", 7, "AbsoluteIndexedY">>) @@
  (252 :> <<"NOP", 4, "AbsoluteIndexedX">>) @@
  (253 :> <<"SBC", 4, "AbsoluteIndexedX">>) @@
  (254 :> <<"INC", 7, "AbsoluteIndexedX">>) @@
  (255 :> <<"ISC", 7, "AbsoluteIndexedX">>)

get_instruction(opcode) ==
  LET entry(e) == [op |-> e[1], cycles |-> e[2], addr_mode |-> e[3]]
  IN IF opcode \in 0..255 THEN entry(OpTable[opcode]) ELSE None

-----------------------------------------------------------------------------
\* Instruction descriptor and opcode engine of the tick machine (c64::opcodes:
\* Instruction, calculate_cycles, fetch_operand_addr, run), after sections
\* 3, 4.1, 4.2 and 4.3 of the specification.

RMWOps == {"INC", "DEC", "ASL", "LSR", "ROL", "ROR",
           "SLO", "RLA", "SRE", "RRA", "DCP", "ISC"}

StoreOps == {"STA", "STX", "STY", "SAX", "AHX", "SHX", "SHY", "TAS"}

NoAddrModes == {"Implied", "Accumulator", "Immediate", "Relative"}

is_rmw_entry(op, addr_mode) == op \in RMWOps /\ addr_mode \notin NoAddrModes

new_instruction ==
  [opcode |-> "NOP", addr_mode |-> "Implied", is_rmw |-> FALSE,
   total_cycles |-> 0, cycles_to_fetch |-> 0, cycles_to_run |-> 0,
   cycles_to_rmw |-> 0, operand_addr |-> 0, rmw_buffer |-> 0]

addr_cycles(addr_mode) ==
  CASE addr_mode \in NoAddrModes -> 0
    [] addr_mode = "Zeropage" -> 1
    [] addr_mode \in {"Absolute", "AbsoluteIndexedX", "AbsoluteIndexedY",
                      "ZeropageIndexedX", "ZeropageIndexedY"} -> 2
    [] addr_mode = "IndirectIndexedY" -> 3
    [] addr_mode \in {"Indirect", "IndexedIndirectX"} -> 4

calculate_cycles(ins, total_cycles, is_rmw) ==
  LET f == addr_cycles(ins.addr_mode)
      w == IF is_rmw THEN 2 ELSE 0
      r == total_cycles - 1 - f - w
  IN [ins EXCEPT !.total_cycles = total_cycles,
                 !.cycles_to_fetch = f,
                 !.cycles_to_rmw = w,
                 !.cycles_to_run = IF r > 0 THEN r ELSE 0]

word_le_at_zp(s, ptr) ==
  LET high(lo) ==
        LET join(hi) == Ret(hi.s, lo.v + 256 * hi.v)
        IN join(read_byte(lo.s, (ptr + 1) % 256))
  IN high(read_byte(s, ptr))

\* the effective address of the addressing mode (section 4.3)
operand_addr_of(s) ==
  LET m == s.instruction.addr_mode
      plus(r, idx) == Ret(r.s, (r.v + idx) % 65536)
      zp_plus(r, idx) == Ret(r.s, (r.v + idx) % 256)
      \* the pointer's high byte comes from the same page
      deref(p) ==
        LET high(lo) ==
              LET join(hi) == Ret(hi.s, lo.v + 256 * hi.v)
              IN join(read_byte(lo.s, (p.v \div 256) * 256 + ((p.v + 1) % 256)))
        IN high(read_byte(p.s, p.v))
      deref_zp(r) == word_le_at_zp(r.s, r.v)
  IN CASE m = "Absolute" -> next_word(s)
       [] m = "AbsoluteIndexedX" -> plus(next_word(s), s.X)
       [] m = "AbsoluteIndexedY" -> plus(next_word(s), s.Y)
       [] m = "Zeropage" -> next_byte(s)
       [] m = "ZeropageIndexedX" -> zp_plus(next_byte(s), s.X)
       [] m = "ZeropageIndexedY" -> zp_plus(next_byte(s), s.Y)
       [] m = "Indirect" -> deref(next_word(s))
       [] m = "IndexedIndirectX" -> deref_zp(zp_plus(next_byte(s), s.X))
       [] m = "IndirectIndexedY" -> plus(deref_zp(next_byte(s)), s.Y)

page_crossed(s, addr) ==
  LET m == s.instruction.addr_mode
      idx == IF m = "AbsoluteIndexedX" THEN s.X ELSE s.Y
  IN /\ m \in {"AbsoluteIndexedX", "AbsoluteIndexedY", "IndirectIndexedY"}
     /\ addr \div 256 # ((addr - idx) % 65536) \div 256

\* one cycle of the addressing phase; v = TRUE when the address is complete
fetch_operand_addr(s) ==
  LET n == s.instruction.cycles_to_fetch
      done(r) ==
        LET extra == IF /\ page_crossed(s, r.v)
                        /\ ~s.instruction.is_rmw
                        /\ s.instruction.opcode \notin StoreOps
                     THEN 1 ELSE 0
        IN IF Failed(r.s) THEN Ret(r.s, FALSE)
           ELSE Ret([r.s EXCEPT !.instruction.operand_addr = r.v,
                                !.instruction.cycles_to_fetch = 0,
                                !.instruction.cycles_to_run = @ + extra], TRUE)
  IN IF n > 1
     THEN Ret([s EXCEPT !.instruction.cycles_to_fetch = n - 1], FALSE)
     ELSE done(operand_addr_of(s))

Load(s, reg) ==
  LET into(r) == set_zn_flags([r.s EXCEPT ![reg] = r.v], r.v)
  IN into(get_operand(s))

Transfer(s, reg, v) == set_zn_flags([s EXCEPT ![reg] = v], v)

Compare(s, reg) ==
  LET with(r) == set_zn_flags(set_status_flag(r.s, FlagCarry, reg - r.v >= 0),
                              (reg - r.v) % 256)
  IN with(get_operand(s))

\* write back result, then carry (-1: unchanged) and Z, N
Modified(t, result, carry) ==
  LET flags(w) == IF carry < 0 THEN w ELSE set_status_flag(w, FlagCarry, carry = 1)
  IN set_zn_flags(flags(set_operand(t, result)), result)

Branch(s, taken) == IF taken THEN [s EXCEPT !.PC = s.instruction.operand_addr] ELSE s

\* the semantics of the decoded operation (section 4.2)
execute(s) ==
  LET op == s.instruction.opcode
      c == IF get_status_flag(s, FlagCarry) THEN 1 ELSE 0
      PLA(r) == Transfer(r.s, "A", r.v)
      PLP(r) == [r.s EXCEPT !.P = Or8(r.v, FlagUnused)]
      AND(r) == Transfer(r.s, "A", And8(r.s.A, r.v))
      EOR(r) == Transfer(r.s, "A", Xor8(r.s.A, r.v))
      ORA(r) == Transfer(r.s, "A", Or8(r.s.A, r.v))
      BIT(r) == set_status_flag(
                  set_status_flag(
                    set_status_flag(r.s, FlagNegative, Bit(r.v, 7) = 1),
                    FlagOverflow, Bit(r.v, 6) = 1),
                  FlagZero, And8(r.v, r.s.A) = 0)
      ADC(r) ==
        LET res == r.s.A + r.v + c
            lo == res % 256
            v == Bit(Xor8(r.s.A, lo), 7) = 1 /\ Bit(Xor8(r.s.A, r.v), 7) = 0
        IN set_zn_flags(
             [set_status_flag(set_status_flag(r.s, FlagCarry, res > 255),
                              FlagOverflow, v) EXCEPT !.A = lo], lo)
      SBC(r) ==
        LET res == r.s.A - r.v - (1 - c)
            lo == res % 256
            v == Bit(Xor8(r.s.A, lo), 7) = 1 /\ Bit(Xor8(r.s.A, r.v), 7) = 1
        IN set_zn_flags(
             [set_status_flag(set_status_flag(r.s, FlagCarry, res >= 0),
                              FlagOverflow, v) EXCEPT !.A = lo], lo)
      INC(r) == Modified(r.s, (r.v + 1) % 256, -1)
      DEC(r) == Modified(r.s, (r.v - 1) % 256, -1)
      ASL(r) == Modified(r.s, (r.v * 2) % 256, Bit(r.v, 7))
      LSR(r) == Modified(r.s, r.v \div 2, Bit(r.v, 0))
      ROL(r) == Modified(r.s, ((r.v * 2) % 256) + c, Bit(r.v, 7))
      ROR(r) == Modified(r.s, (r.v \div 2) + 128 * c, Bit(r.v, 0))
      RTS(r) == [r.s EXCEPT !.PC = (r.v + 1) % 65536]
      RTI(p) ==
        LET ret(w) == [w.s EXCEPT !.P = Or8(p.v, FlagUnused), !.PC = w.v]
        IN ret(pop_word(p.s))
      BRK(b) ==
        LET push_status(w) == push_byte(w, b.P)
            jump(v) == set_status_flag([v.s EXCEPT !.PC = v.v],
                                       FlagInterruptDisable, TRUE)
        IN jump(read_word_le(push_status(push_word(b, (b.PC + 2) % 65536)),
                             IRQ_VECTOR))
  IN CASE op = "LDA" -> Load(s, "A")
       [] op = "LDX" -> Load(s, "X")
       [] op = "LDY" -> Load(s, "Y")
       [] op = "STA" -> set_operand(s, s.A)
       [] op = "STX" -> set_operand(s, s.X)
       [] op = "STY" -> set_operand(s, s.Y)
       [] op = "TAX" -> Transfer(s, "X", s.A)
       [] op = "TAY" -> Transfer(s, "Y", s.A)
       [] op = "TXA" -> Transfer(s, "A", s.X)
       [] op = "TYA" -> Transfer(s, "A", s.Y)
       [] op = "TSX" -> Transfer(s, "X", s.SP)
       [] op = "TXS" -> [s EXCEPT !.SP = s.X]
       [] op = "PHA" -> push_byte(s, s.A)
       [] op = "PHP" -> push_byte(s, s.P)
       [] op = "PLA" -> PLA(pop_byte(s))
       [] op = "PLP" -> PLP(pop_byte(s))
       [] op = "AND" -> AND(get_operand(s))
       [] op = "EOR" -> EOR(get_operand(s))
       [] op = "ORA" -> ORA(get_operand(s))
       [] op = "BIT" -> BIT(get_operand(s))
       [] op = "ADC" -> ADC(get_operand(s))
       [] op = "SBC" -> SBC(get_operand(s))
       [] op = "CMP" -> Compare(s, s.A)
       [] op = "CPX" -> Compare(s, s.X)
       [] op = "CPY" -> Compare(s, s.Y)
       [] op = "INC" -> INC(get_operand(s))
       [] op = "DEC" -> DEC(get_operand(s))
       [] op = "INX" -> Transfer(s, "X", (s.X + 1) % 256)
       [] op = "INY" -> Transfer(s, "Y", (s.Y + 1) % 256)
       [] op = "DEX" -> Transfer(s, "X", (s.X - 1) % 256)
       [] op = "DEY" -> Transfer(s, "Y", (s.Y - 1) % 256)
       [] op = "ASL" -> ASL(get_operand(s))
       [] op = "LSR" -> LSR(get_operand(s))
       [] op = "ROL" -> ROL(get_operand(s))
       [] op = "ROR" -> ROR(get_operand(s))
       [] op = "JMP" -> [s EXCEPT !.PC = s.instruction.operand_addr]
       [] op = "JSR" ->
            [push_word(s, (s.PC - 1) % 65536) EXCEPT !.PC = s.instruction.operand_addr]
       [] op = "RTS" -> RTS(pop_word(s))
       [] op = "RTI" -> RTI(pop_byte(s))
       [] op = "BCC" -> Branch(s, c = 0)
       [] op = "BCS" -> Branch(s, c = 1)
       [] op = "BEQ" -> Branch(s, get_status_flag(s, FlagZero))
       [] op = "BNE" -> Branch(s, ~get_status_flag(s, FlagZero))
       [] op = "BMI" -> Branch(s, get_status_flag(s, FlagNegative))
       [] op = "BPL" -> Branch(s, ~get_status_flag(s, FlagNegative))
       [] op = "BVS" -> Branch(s, get_status_flag(s, FlagOverflow))
       [] op = "BVC" -> Branch(s, ~get_status_flag(s, FlagOverflow))
       [] op = "CLC" -> set_status_flag(s, FlagCarry, FALSE)
       [] op = "SEC" -> set_status_flag(s, FlagCarry, TRUE)
       [] op = "CLD" -> set_status_flag(s, FlagDecimalMode, FALSE)
       [] op = "SED" -> set_status_flag(s, FlagDecimalMode, TRUE)
       [] op = "CLI" -> set_status_flag(s, FlagInterruptDisable, FALSE)
       [] op = "SEI" -> set_status_flag(s, FlagInterruptDisable, TRUE)
       [] op = "CLV" -> set_status_flag(s, FlagOverflow, FALSE)
       [] op = "BRK" -> BRK(set_status_flag(s, FlagBreak, TRUE))
       [] op = "HLT" -> Fail(s, "Received HLT instruction")
       [] OTHER -> s

\* one cycle of the execute phase; v = TRUE when the instruction is complete
run(s) ==
  LET n == s.instruction.cycles_to_run
      done(t) == Ret(t, ~Failed(t))
  IN IF n > 1
     THEN Ret([s EXCEPT !.instruction.cycles_to_run = n - 1], FALSE)
     ELSE done(execute([s EXCEPT !.instruction.cycles_to_run = 0]))

-----------------------------------------------------------------------------
\* CPU::update: one bus cycle

\* variants of the interrupt recognition
check_interrupts_any_state(s, c64_cycle_cnt) ==
  IF /\ s.nmi /\ s.nmi_cycles_left = 0
     /\ SubU32AtLeast(c64_cycle_cnt, s.first_nmi_cycle, 2)
  THEN [s EXCEPT !.nmi_cycles_left = 7, !.state = "ProcessNMI"]
  ELSE IF /\ (s.cia_irq \/ s.vic_irq) /\ s.irq_cycles_left = 0
          /\ ~get_status_flag(s, FlagInterruptDisable)
          /\ SubU32AtLeast(c64_cycle_cnt, s.first_irq_cycle, 2)
  THEN [s EXCEPT !.irq_cycles_left = 7, !.state = "ProcessIRQ"]
  ELSE s

check_interrupts_irq_first(s, c64_cycle_cnt) ==
  IF s.state = "FetchOp"
  THEN IF /\ (s.cia_irq \/ s.vic_irq) /\ s.irq_cycles_left = 0
          /\ ~get_status_flag(s, FlagInterruptDisable)
          /\ SubU32AtLeast(c64_cycle_cnt, s.first_irq_cycle, 2)
       THEN [s EXCEPT !.irq_cycles_left = 7, !.state = "ProcessIRQ"]
       ELSE IF /\ s.nmi /\ s.nmi_cycles_left = 0
               /\ SubU32AtLeast(c64_cycle_cnt, s.first_nmi_cycle, 2)
       THEN [s EXCEPT !.nmi_cycles_left = 7, !.state = "ProcessNMI"]
       ELSE s
  ELSE s

check_interrupts_ignore_disable(s, c64_cycle_cnt) ==
  IF s.state = "FetchOp"
  THEN IF /\ s.nmi /\ s.nmi_cycles_left = 0
          /\ SubU32AtLeast(c64_cycle_cnt, s.first_nmi_cycle, 2)
       THEN [s EXCEPT !.nmi_cycles_left = 7, !.state = "ProcessNMI"]
       ELSE IF /\ (s.cia_irq \/ s.vic_irq) /\ s.irq_cycles_left = 0
               /\ SubU32AtLeast(c64_cycle_cnt, s.first_irq_cycle, 2)
       THEN [s EXCEPT !.irq_cycles_left = 7, !.state = "ProcessIRQ"]
       ELSE s
  ELSE s

\* interrupt recognition at the instruction boundary
\* variant: an NMI is recognised in whatever state the machine is
check_interrupts_nmi_any_state(s, c64_cycle_cnt) ==
  IF /\ s.nmi /\ s.nmi_cycles_left = 0
     /\ SubU32AtLeast(c64_cycle_cnt, s.first_nmi_cycle, 2)
  THEN [Ov(s, c64_cycle_cnt < s.first_nmi_cycle)
          EXCEPT !.nmi_cycles_left = 7, !.state = "ProcessNMI"]
  ELSE IF /\ s.state = "FetchOp"
          /\ (s.cia_irq \/ s.vic_irq) /\ s.irq_cycles_left = 0
          /\ ~get_status_flag(s, FlagInterruptDisable)
          /\ SubU32AtLeast(c64_cycle_cnt, s.first_irq_cycle, 2)
  THEN [Ov(s, c64_cycle_cnt < s.first_irq_cycle)
          EXCEPT !.irq_cycles_left = 7, !.state = "ProcessIRQ"]
  ELSE s

check_interrupts(s, c64_cycle_cnt) ==
  IF s.state = "FetchOp"
  THEN IF /\ s.nmi /\ s.nmi_cycles_left = 0
          /\ SubU32AtLeast(c64_cycle_cnt, s.first_nmi_cycle, 2)
       THEN [Ov(s, c64_cycle_cnt < s.first_nmi_cycle)
               EXCEPT !.nmi_cycles_left = 7, !.state = "ProcessNMI"]
       ELSE IF /\ (s.cia_irq \/ s.vic_irq) /\ s.irq_cycles_left = 0
               /\ ~get_status_flag(s, FlagInterruptDisable)
               /\ SubU32AtLeast(c64_cycle_cnt, s.first_irq_cycle, 2)
       THEN [Ov(s, c64_cycle_cnt < s.first_irq_cycle)
               EXCEPT !.irq_cycles_left = 7, !.state = "ProcessIRQ"]
       ELSE s
  ELSE s

\* variant: the opcode fetch ignores ba_low
update_FetchOp_no_stall(s) ==
  LET relative(t) ==
        LET base == AsI16((t.PC + 1) % 65536)
            target(o) ==
              LET sum == base + AsI8(o.v)
                  w == Ov(o.s, sum > 32767 \/ sum < -32768)
              IN IF Failed(w) THEN w
                 ELSE [w EXCEPT !.instruction.operand_addr = sum % 65536,
                                !.state = "ExecuteOp"]
        IN target(next_byte(Ov(t, t.PC + 1 > 65535)))
      start(t, d) ==
        CASE d.addr_mode \in {"Implied", "Accumulator", "Immediate"} ->
               [t EXCEPT !.state = "ExecuteOp"]
          [] d.addr_mode = "Relative" -> relative(t)
          [] OTHER -> [t EXCEPT !.state = "FetchOperandAddr"]
      with(t, d) ==
        LET rmw == is_rmw_entry(d.op, d.addr_mode)
        IN start([t EXCEPT !.instruction =
                    calculate_cycles(
                      [@ EXCEPT !.opcode = d.op,
                                !.addr_mode = d.addr_mode,
                                !.is_rmw = rmw], d.cycles, rmw)], d)
      decode(r, d) ==
        IF Failed(r.s) THEN r.s
        ELSE IF d = None THEN Fail(r.s, "Can't fetch instruction")
        ELSE with(r.s, d)
      fetched(r) == decode(r, get_instruction(r.v))
  IN fetched(next_byte(s))

update_FetchOp(s) ==
  LET relative(t) ==
        LET base == AsI16((t.PC + 1) % 65536)
            target(o) ==
              LET sum == base + AsI8(o.v)
                  w == Ov(o.s, sum > 32767 \/ sum < -32768)
              IN IF Failed(w) THEN w
                 ELSE [w EXCEPT !.instruction.operand_addr = sum % 65536,
                                !.state = "ExecuteOp"]
        IN target(next_byte(Ov(t, t.PC + 1 > 65535)))
      start(t, d) ==
        CASE d.addr_mode \in {"Implied", "Accumulator", "Immediate"} ->
               [t EXCEPT !.state = "ExecuteOp"]
          [] d.addr_mode = "Relative" -> relative(t)
          [] OTHER -> [t EXCEPT !.state = "FetchOperandAddr"]
      with(t, d) ==
        LET rmw == is_rmw_entry(d.op, d.addr_mode)
        IN start([t EXCEPT !.instruction =
                    calculate_cycles(
                      [@ EXCEPT !.opcode = d.op,
                                !.addr_mode = d.addr_mode,
                                !.is_rmw = rmw], d.cycles, rmw)], d)
      decode(r, d) ==
        IF Failed(r.s) THEN r.s
        ELSE IF d = None THEN Fail(r.s, "Can't fetch instruction")
        ELSE with(r.s, d)
      fetched(r) == decode(r, get_instruction(r.v))
  IN IF s.ba_low THEN s ELSE fetched(next_byte(s))

update_FetchOperandAddr(s) ==
  LET finish(x) == IF Failed(x) THEN x ELSE [x EXCEPT !.state = "FetchOp"]
      next(t) ==
        IF Failed(t) THEN t
        ELSE IF t.instruction.cycles_to_run = 0 /\ t.instruction.cycles_to_fetch = 0
        THEN finish(run(t).s)
        ELSE t
      fetched(r) ==
        next(IF r.v
             THEN [r.s EXCEPT !.state = IF r.s.instruction.is_rmw
                                        THEN "PerformRMW" ELSE "ExecuteOp"]
             ELSE r.s)
  IN IF s.ba_low THEN s ELSE fetched(fetch_operand_addr(s))

\* variant: the sequence ends without clearing the VIC latch
update_ProcessIRQ_keeps_vic(s) ==
  LET done(r) == IF r.v
                 THEN [r.s EXCEPT !.cia_irq = FALSE, !.state = "FetchOp"]
                 ELSE r.s
  IN done(process_irq(s))

\* variant: the sequence ends without clearing the CIA latch
update_ProcessIRQ_keeps_cia(s) ==
  LET done(r) == IF r.v
                 THEN [r.s EXCEPT !.vic_irq = FALSE, !.state = "FetchOp"]
                 ELSE r.s
  IN done(process_irq(s))

update_ProcessIRQ(s) ==
  LET done(r) == IF r.v
                 THEN [r.s EXCEPT !.cia_irq = FALSE, !.vic_irq = FALSE,
                                  !.state = "FetchOp"]
                 ELSE r.s
  IN done(process_irq(s))

\* an update of ProcessNMI that does not leave the state when the sequence ends
update_ProcessNMI_stays(s) ==
  LET done(r) == IF r.v THEN [r.s EXCEPT !.nmi = FALSE] ELSE r.s
  IN done(process_nmi(s))

update_ProcessNMI(s) ==
  LET done(r) == IF r.v
                 THEN [r.s EXCEPT !.nmi = FALSE, !.state = "FetchOp"]
                 ELSE r.s
  IN done(process_nmi(s))

\* variant: the read of the RMW phase ignores ba_low
update_PerformRMW_no_stall(s) ==
  LET n == s.instruction.cycles_to_rmw
      addr == s.instruction.operand_addr
      dec(t) == IF Failed(t) THEN t ELSE [t EXCEPT !.instruction.cycles_to_rmw = n - 1]
      buffer(r) == [r.s EXCEPT !.instruction.rmw_buffer = r.v]
  IN CASE n = 2 -> dec(buffer(read_byte(s, addr)))
       [] n = 1 ->
            dec([write_byte(s, addr, s.instruction.rmw_buffer)
                   EXCEPT !.state = "ExecuteOp"])
       [] OTHER -> Fail(s, "Too many cycles in RMW stage!")

\* variant: the second cycle of the RMW phase writes an incremented byte
update_PerformRMW_writes_modified(s) ==
  LET n == s.instruction.cycles_to_rmw
      addr == s.instruction.operand_addr
      dec(t) == IF Failed(t) THEN t ELSE [t EXCEPT !.instruction.cycles_to_rmw = n - 1]
      buffer(r) == [r.s EXCEPT !.instruction.rmw_buffer = r.v]
  IN CASE n = 2 ->
            IF s.ba_low THEN s ELSE dec(buffer(read_byte(s, addr)))
       [] n = 1 ->
            dec([write_byte(s, addr, (s.instruction.rmw_buffer + 1) % 256)
                   EXCEPT !.state = "ExecuteOp"])
       [] OTHER -> Fail(s, "Too many cycles in RMW stage!")

update_PerformRMW(s) ==
  LET n == s.instruction.cycles_to_rmw
      addr == s.instruction.operand_addr
      dec(t) == IF Failed(t) THEN t ELSE [t EXCEPT !.instruction.cycles_to_rmw = n - 1]
      buffer(r) == [r.s EXCEPT !.instruction.rmw_buffer = r.v]
  IN CASE n = 2 ->
            IF s.ba_low THEN s ELSE dec(buffer(read_byte(s, addr)))
       [] n = 1 ->
            dec([write_byte(s, addr, s.instruction.rmw_buffer)
                   EXCEPT !.state = "ExecuteOp"])
       [] OTHER -> Fail(s, "Too many cycles in RMW stage!")

update_ExecuteOp(s) ==
  LET done(r) == IF r.v THEN [r.s EXCEPT !.state = "FetchOp"] ELSE r.s
  IN done(run(s))

update(s0, c64_cycle_cnt) ==
  LET step(s) ==
        IF Failed(s) THEN s
        ELSE CASE s.state = "FetchOp" -> update_FetchOp(s)
               [] s.state = "FetchOperandAddr" -> update_FetchOperandAddr(s)
               [] s.state = "ProcessIRQ" -> update_ProcessIRQ(s)
               [] s.state = "ProcessNMI" -> update_ProcessNMI(s)
               [] s.state = "PerformRMW" -> update_PerformRMW(s)
               [] s.state = "ExecuteOp" -> update_ExecuteOp(s)
  IN step(check_interrupts(s0, c64_cycle_cnt))

reset(s) == [s EXCEPT !.PC = mem_read_word_le(s.mem, RESET_VECTOR)]


-----------------------------------------------------------------------------
\* Memory images the machine is started on

Image(base, bytes) == [a \in base..(base + Len(bytes) - 1) |-> bytes[a - base + 1]]

Vectors(nmi_lo, nmi_hi, rst_lo, rst_hi, irq_lo, irq_hi) ==
  Image(NMI_VECTOR, <<nmi_lo, nmi_hi, rst_lo, rst_hi, irq_lo, irq_hi>>)

\* $0200: LDA #$80; STA $10; ASL $10; PHA; PLA; JSR $0210; JMP $0200
\* $0210: INX; BNE +1; NOP; RTS      $0300: RTI (IRQ)      $0310: RTI (NMI)
ProgMain ==
  Image(512, <<169, 128, 133, 16, 6, 16, 72, 104, 32, 16, 2, 76, 0, 2>>) @@
  Image(528, <<232, 208, 1, 234, 96>>) @@
  Image(768, <<64>>) @@ Image(784, <<64>>) @@
  Vectors(16, 3, 0, 2, 0, 3)

\* $0200: SEI; INC $20; CLI; LDA $DC0D; STA $D019; ROL $0120; JMP $0200
\* $0300: BIT $DD0D; RTI (IRQ)      $0310: RTI (NMI)
ProgIO ==
  Image(512, <<120, 230, 32, 88, 173, 13, 220, 141, 25, 208, 46, 32, 1, 76, 0, 2>>) @@
  Image(768, <<44, 13, 221, 64>>) @@ Image(784, <<64>>) @@
  Vectors(16, 3, 0, 2, 0, 3)

\* $0200: LDX #$01; TXS; PHP; PHA; LSR $01FF,X; PLA; PLP; RTS
ProgStack ==
  Image(512, <<162, 1, 154, 8, 72, 94, 255, 1, 104, 40, 96>>) @@
  Vectors(0, 2, 0, 2, 0, 2)

\* $0200: SEC; ROR $10; LSR $10; JMP $0200
\* $0208: ROL $10; DEC $10; JMP $0208      $0300: RTI (IRQ)      $0310: RTI (NMI)
\* started at $0200 or at $0208
ProgRMW(entry_lo) ==
  Image(512, <<56, 102, 16, 70, 16, 76, 0, 2>>) @@
  Image(520, <<38, 16, 198, 16, 76, 8, 2>>) @@
  Image(768, <<64>>) @@ Image(784, <<64>>) @@
  Vectors(16, 3, entry_lo, 2, 0, 3)

Programs ==
  { [mem |-> ProgMain, io_on |-> FALSE],
    [mem |-> ProgIO, io_on |-> TRUE],
    [mem |-> ProgStack, io_on |-> FALSE],
    [mem |-> ProgRMW(0), io_on |-> FALSE],
    [mem |-> ProgRMW(8), io_on |-> FALSE] }

CallbackActions == {"None", "TriggerVICIrq", "ClearVICIrq", "TriggerCIAIrq",
                    "ClearCIAIrq", "TriggerNMI", "ClearNMI"}

-----------------------------------------------------------------------------
\* The machine: power-on state, the host's calls, the chips' signals

Init ==
  /\ PC = 0 /\ SP = 255 /\ P = 0 /\ A = 0 /\ X = 0 /\ Y = 0
  /\ instruction = new_instruction
  /\ ba_low = FALSE /\ cia_irq = FALSE /\ vic_irq = FALSE /\ nmi = FALSE
  /\ irq_cycles_left = 0 /\ nmi_cycles_left = 0
  /\ first_nmi_cycle = 0 /\ first_irq_cycle = 0
  /\ state = "FetchOp"
  /\ dfff_byte = 85
  /\ \E p \in Programs : mem = p.mem /\ io_on = p.io_on
  /\ vic_last_byte = 0 /\ chip_byte = 0 /\ chip_cb = "None"
  /\ overflow_checks \in BOOLEAN
  /\ failure = "none"
  /\ cycle = 0 /\ booted = FALSE /\ events = 0
  /\ bus = <<>>
  /\ cia_age = 0 /\ vic_age = 0 /\ nmi_age = 0 /\ stalls = 0 /\ resumed = FALSE
  /\ sp0 = 255 /\ stk = <<>> /\ popped = <<>> /\ before = <<>>

Running == failure = "none"

Aged(latch, latch_after, age, by_update) ==
  IF latch_after /\ ~latch THEN (IF by_update THEN 1 ELSE 0)
  ELSE IF ~latch_after THEN 0
  ELSE IF by_update /\ age < AgeCap THEN age + 1 ELSE age

Ages(t, by_update) ==
  /\ cia_age' = Aged(cia_irq, t.cia_irq, cia_age, by_update)
  /\ vic_age' = Aged(vic_irq, t.vic_irq, vic_age, by_update)
  /\ nmi_age' = Aged(nmi, t.nmi, nmi_age, by_update)

\* the host has the CPU load PC from the RESET vector before the first cycle
Reset ==
  /\ Running /\ ~booted
  /\ Commit(reset(S)) /\ Ages(S, FALSE)
  /\ booted' = TRUE
  /\ UNCHANGED <<cycle, events, stalls, resumed, sp0, stk, popped, before>>

\* the host ticks the CPU once per bus cycle
Update ==
  /\ Running /\ booted /\ cycle < MaxCycle
  /\ LET ticked(t) == Commit(t) /\ Ages(t, TRUE)
     IN ticked(update([S EXCEPT !.bus = <<>>], cycle))
  /\ cycle' = cycle + 1
  /\ stalls' = IF ba_low /\ (state = "FetchOp" \/ stalls > 0)
                THEN (IF stalls < StallCap THEN stalls + 1 ELSE stalls)
                ELSE 0
  /\ resumed' = (stalls > 0 /\ ~ba_low)
  /\ UNCHANGED <<booted, events, sp0, stk, popped, before>>

Signal(t) ==
  /\ Running /\ booted /\ events < MaxEvents
  /\ Commit(t) /\ Ages(t, FALSE)
  /\ events' = events + 1
  /\ UNCHANGED <<cycle, booted, stalls, resumed, sp0, stk, popped, before>>

SetBaLow == \E b \in BOOLEAN : b # ba_low /\ Signal([S EXCEPT !.ba_low = b])

SetVicIrq == \E b \in BOOLEAN : b # vic_irq /\ Signal(set_vic_irq(S, b))

SetCiaIrq == \E b \in BOOLEAN : b # cia_irq /\ Signal(set_cia_irq(S, b))

SetNmi == \E b \in BOOLEAN : b # nmi /\ Signal(set_nmi(S, b))

\* the chips decide what their next register access returns and signals
ChipStep ==
  /\ io_on
  /\ \E cb \in CallbackActions, b \in {0, 129} :
       /\ <<cb, b>> # <<chip_cb, chip_byte>>
       /\ Signal([S EXCEPT !.chip_cb = cb, !.chip_byte = b, !.vic_last_byte = b])

Next == Reset \/ Update \/ SetBaLow \/ SetVicIrq \/ SetCiaIrq \/ SetNmi \/ ChipStep

Spec == Init /\ [][Next]_vars

-----------------------------------------------------------------------------
\* Vocabulary of the properties

IsUpdate == cycle' = cycle + 1

InterruptDisabled == And8(P, FlagInterruptDisable) # 0

NmiEligible ==
  nmi /\ nmi_cycles_left = 0 /\ SubU32AtLeast(cycle, first_nmi_cycle, 2)

IrqEligible ==
  /\ (cia_irq \/ vic_irq) /\ irq_cycles_left = 0 /\ ~InterruptDisabled
  /\ SubU32AtLeast(cycle, first_irq_cycle, 2)

IrqAckStarts == state # "ProcessIRQ" /\ state' = "ProcessIRQ"

NmiAckStarts == state # "ProcessNMI" /\ state' = "ProcessNMI"

MidInstruction == state \in {"FetchOperandAddr", "PerformRMW", "ExecuteOp"}

-----------------------------------------------------------------------------
\* C1: an acknowledgement sequence (ProcessIRQ / ProcessNMI, a counter leaving
\* 0) starts only in an update call that begins in state FetchOp; a latch set
\* in mid-instruction waits until the instruction has run to FetchOp.
C1_AckStartsOnlyAtFetchOp ==
  [][ (\/ IrqAckStarts \/ NmiAckStarts
       \/ (irq_cycles_left = 0 /\ irq_cycles_left' # 0)
       \/ (nmi_cycles_left = 0 /\ nmi_cycles_left' # 0))
      => (state = "FetchOp" /\ IsUpdate) ]_vars

\* an NMI latched for two update calls and still waiting while the dummy
\* write of an RMW instruction is due
C1_Witness ==
  /\ state = "PerformRMW" /\ instruction.cycles_to_rmw = 1
  /\ nmi /\ nmi_age >= 2 /\ nmi_cycles_left = 0 /\ cycle > 3

\* C2: a latch going from clear to set in bus cycle N has N recorded in
\* first_irq_cycle / first_nmi_cycle, and no update call with index below
\* N + 2 starts the acknowledgement of that interrupt.
C2_SettleDelay ==
  [][ /\ ((cia_irq' /\ ~cia_irq) \/ (vic_irq' /\ ~vic_irq)) => first_irq_cycle' = cycle
      /\ (nmi' /\ ~nmi) => first_nmi_cycle' = cycle
      /\ IrqAckStarts => \/ cia_irq /\ cia_age >= SettleDelay
                         \/ vic_irq /\ vic_age >= SettleDelay
      /\ NmiAckStarts => nmi /\ nmi_age >= SettleDelay ]_vars

\* C3: an update call in FetchOp that finds both an NMI and an IRQ eligible
\* starts ProcessNMI and leaves irq_cycles_left 0, and no IRQ acknowledgement
\* starts while the NMI sequence runs.
C3_NmiPreemptsIrq ==
  [][ /\ (IsUpdate /\ state = "FetchOp" /\ NmiEligible /\ IrqEligible)
           => /\ state' = "ProcessNMI"
              /\ nmi_cycles_left' \in {6, 7}
              /\ irq_cycles_left' = 0
      /\ state = "ProcessNMI" => (irq_cycles_left' = 0 /\ state' # "ProcessIRQ") ]_vars

\* the NMI sequence has just started over an IRQ that was pending and enabled
C3_Witness ==
  /\ state = "ProcessNMI" /\ nmi_cycles_left = 6 /\ irq_cycles_left = 0
  /\ cia_irq /\ cia_age >= 2 /\ ~InterruptDisabled

\* C4: with InterruptDisable set no update call starts ProcessIRQ, whatever
\* cia_irq and vic_irq hold; an eligible NMI is acknowledged by the update
\* call in FetchOp whether InterruptDisable is set or clear.
C4_DisableMasksIrqNotNmi ==
  [][ /\ InterruptDisabled => (~IrqAckStarts /\ (irq_cycles_left = 0 => irq_cycles_left' = 0))
      /\ (IsUpdate /\ state = "FetchOp" /\ NmiEligible)
           => (state' = "ProcessNMI" /\ nmi_cycles_left' \in {6, 7}) ]_vars

\* an instruction was fetched with InterruptDisable set while cia_irq had
\* been latched for two update calls
C4_Witness ==
  /\ InterruptDisabled /\ cia_irq /\ cia_age >= 2 /\ irq_cycles_left = 0
  /\ state = "FetchOperandAddr" /\ instruction.opcode = "INC"
  /\ Len(bus) = 1 /\ bus[1][1] = "R" /\ cycle > 3

\* C5: in the update call in which irq_cycles_left (nmi_cycles_left) reaches
\* 0, PC becomes the little-endian word at $FFFE ($FFFA), the triggering
\* latch is cleared and the state is FetchOp.
C5_AckCompletion ==
  [][ /\ (irq_cycles_left # 0 /\ irq_cycles_left' = 0)
           => /\ PC' = mem_read_word_le(mem', IRQ_VECTOR)
              /\ ~cia_irq' /\ ~vic_irq'
              /\ state' = "FetchOp"
      /\ (nmi_cycles_left # 0 /\ nmi_cycles_left' = 0)
           => /\ PC' = mem_read_word_le(mem', NMI_VECTOR)
              /\ ~nmi'
              /\ state' = "FetchOp" ]_vars

\* the update call that read the IRQ vector has just returned
C5_Witness ==
  /\ state = "FetchOp" /\ irq_cycles_left = 0
  /\ Len(bus) = 2 /\ bus[1][2] = IRQ_VECTOR /\ bus[2][2] = IRQ_VECTOR + 1
  /\ PC = bus[1][3] + 256 * bus[2][3]
  /\ ~cia_irq /\ ~vic_irq

\* C6: with InterruptDisable clear and ba_low false, a CIA IRQ asserted at
\* cycle N is acknowledged by the first update call in state FetchOp at a cycle
\* >= N+2 and by none before it; the acknowledgement takes 7 update calls, PC
\* standing still until the last of them loads it from the IRQ vector.
C6_CiaIrqLatency ==
  [][ (IsUpdate /\ ~ba_low) =>
        /\ (IrqAckStarts /\ cia_irq /\ ~vic_irq) => cia_age >= SettleDelay
        /\ ( /\ state = "FetchOp" /\ cia_irq /\ cia_age >= SettleDelay
             /\ ~InterruptDisabled /\ irq_cycles_left = 0
             /\ ~nmi /\ nmi_cycles_left = 0 )
             => (IrqAckStarts /\ irq_cycles_left' = 6 /\ PC' = PC)
        /\ (state = "ProcessIRQ" /\ failure' = "none")
             => /\ irq_cycles_left' = irq_cycles_left - 1
                /\ irq_cycles_left > 1 => PC' = PC
                /\ irq_cycles_left = 1 => PC' = mem_read_word_le(mem, IRQ_VECTOR) ]_vars

-----------------------------------------------------------------------------
Registers == <<PC, SP, P, A, X, Y>>

\* an update call held at the opcode fetch, or at the first cycle of an
\* acknowledgement recognized during such a hold
HeldAtFetch == ba_low /\ (state = "FetchOp" \/ stalls > 0)

\* the call reads the byte at PC, decodes it and moves on behind it
FetchesOpcode ==
  /\ Len(bus') >= 1 /\ bus'[1][1] = "R" /\ bus'[1][2] = PC
  /\ failure' = "none" =>
       /\ state' \in {"ExecuteOp", "FetchOperandAddr"}
       /\ instruction'.opcode = get_instruction(bus'[1][3]).op
       /\ PC' \in {(PC + 1) % 65536, (PC + 2) % 65536}

\* the call is the first cycle of an acknowledgement: a dummy read at PC
AckDummyRead ==
  /\ bus' = << <<"R", PC, mem_read_byte(mem, PC)>> >>
  /\ PC' = PC /\ instruction' = instruction
  /\ \/ state' = "ProcessNMI" /\ nmi_cycles_left' = 6
     \/ state' = "ProcessIRQ" /\ irq_cycles_left' = 6

\* C7 as stated: held at the opcode fetch by ba_low, update calls change no
\* register and touch no bus, whatever the latches hold; the first call after
\* ba_low is cleared fetches the opcode at PC.
C7_HoldThenFetch ==
  [][ IsUpdate =>
        /\ HeldAtFetch => (Registers' = Registers /\ bus' = <<>>)
        /\ (stalls > 0 /\ ~ba_low) => FetchesOpcode ]_vars

\* C7, amended: as above, but the first call after the hold fetches the opcode
\* only when no interrupt has been recognized; when one was recognized during
\* the hold or is recognized by this call, the call is the acknowledgement's
\* first cycle, a dummy read at PC.
C7_HoldThenFetchOrAck ==
  [][ IsUpdate =>
        /\ HeldAtFetch => (Registers' = Registers /\ bus' = <<>>)
        /\ (stalls > 0 /\ ~ba_low) =>
             IF state = "FetchOp" /\ ~NmiEligible /\ ~IrqEligible
             THEN FetchesOpcode
             ELSE AckDummyRead ]_vars

\* a hold of two update calls with a CIA IRQ pending has ended and the call
\* after it made the dummy read of the acknowledgement
C7_Witness ==
  /\ resumed /\ ~ba_low /\ cia_irq
  /\ state = "ProcessIRQ" /\ irq_cycles_left = 6
  /\ Len(bus) = 1 /\ bus[1][1] = "R" /\ bus[1][2] = PC

-----------------------------------------------------------------------------
\* the cycles in which the CPU reads: opcode and address fetch, the read of
\* the RMW phase, the dummy reads and the vector read of an acknowledgement
ReadBearing ==
  \/ state \in {"FetchOp", "FetchOperandAddr"}
  \/ state = "PerformRMW" /\ instruction.cycles_to_rmw = 2
  \/ state = "ProcessIRQ" /\ irq_cycles_left \in {7, 6, 1}
  \/ state = "ProcessNMI" /\ nmi_cycles_left \in {7, 6, 1}

\* C8 as stated: an update call made with ba_low true at a read-bearing cycle
\* leaves the tick state, the instruction descriptor, both acknowledgement
\* counters and all registers as they were.
C8_StallChangesNothing ==
  [][ (IsUpdate /\ ba_low /\ ReadBearing) =>
        /\ state' = state /\ instruction' = instruction
        /\ irq_cycles_left' = irq_cycles_left /\ nmi_cycles_left' = nmi_cycles_left
        /\ Registers' = Registers ]_vars

\* C8, amended: such a call makes no bus access and leaves the instruction
\* descriptor and the registers as they were; the tick state and the counters
\* stay too, except that a call starting in FetchOp still recognizes a pending
\* interrupt: it enters ProcessNMI (else ProcessIRQ) with that counter at 7.
C8_StallKeepsAllButRecognition ==
  [][ (IsUpdate /\ ba_low /\ ReadBearing) =>
        /\ bus' = <<>> /\ instruction' = instruction /\ Registers' = Registers
        /\ IF state = "FetchOp" /\ NmiEligible
           THEN /\ state' = "ProcessNMI" /\ nmi_cycles_left' = 7
                /\ irq_cycles_left' = irq_cycles_left
           ELSE IF state = "FetchOp" /\ IrqEligible
           THEN /\ state' = "ProcessIRQ" /\ irq_cycles_left' = 7
                /\ nmi_cycles_left' = nmi_cycles_left
           ELSE /\ state' = state
                /\ irq_cycles_left' = irq_cycles_left
                /\ nmi_cycles_left' = nmi_cycles_left ]_vars

\* an update call held by ba_low at the opcode fetch has recognized an NMI:
\* the sequence stands at its first cycle, nothing was read
C8_Witness ==
  /\ ba_low /\ stalls > 0 /\ bus = <<>>
  /\ state = "ProcessNMI" /\ nmi_cycles_left = 7 /\ nmi

-----------------------------------------------------------------------------
\* the byte an RMW operation writes for the byte v it was given
RmwResult(op, v, carry) ==
  CASE op = "INC" -> (v + 1) % 256
    [] op = "DEC" -> (v - 1) % 256
    [] op = "ASL" -> (v * 2) % 256
    [] op = "LSR" -> v \div 2
    [] op = "ROL" -> ((v * 2) % 256) + carry
    [] op = "ROR" -> (v \div 2) + 128 * carry

Writes(b) == {i \in 1..Len(b) : b[i][1] = "W"}

\* C9: the RMW phase reads the byte at operand_addr into rmw_buffer in one
\* update call and writes that same byte back to operand_addr in the next,
\* ba_low or not; the instruction writes nothing before that dummy write; the
\* operation then computes on the buffered byte, without reading again, and
\* writes its result to operand_addr.
C9_RmwDummyWrite ==
  [][ (IsUpdate /\ failure' = "none") =>
        /\ (state = "PerformRMW" /\ instruction.cycles_to_rmw = 2 /\ ~ba_low) =>
             /\ Len(bus') = 1 /\ bus'[1][1] = "R"
             /\ bus'[1][2] = instruction.operand_addr
             /\ instruction'.rmw_buffer = bus'[1][3]
             /\ state' = "PerformRMW" /\ instruction'.cycles_to_rmw = 1
        /\ (state = "PerformRMW" /\ instruction.cycles_to_rmw = 1) =>
             /\ bus' = << <<"W", instruction.operand_addr, instruction.rmw_buffer>> >>
             /\ instruction'.rmw_buffer = instruction.rmw_buffer
             /\ state' = "ExecuteOp"
        /\ ( \/ state = "FetchOperandAddr" /\ instruction.is_rmw
             \/ state = "PerformRMW" /\ instruction.cycles_to_rmw = 2 ) =>
             Writes(bus') = {}
        /\ (state = "ExecuteOp" /\ instruction.is_rmw) =>
             get_operand(S) = Ret(S, instruction.rmw_buffer)
        /\ ( /\ state = "ExecuteOp" /\ instruction.is_rmw
             /\ instruction.cycles_to_run <= 1
             /\ instruction.opcode \in {"INC", "DEC", "ASL", "LSR", "ROL", "ROR"} ) =>
             bus' = << <<"W", instruction.operand_addr,
                         RmwResult(instruction.opcode, instruction.rmw_buffer,
                                   And8(P, FlagCarry))>> >> ]_vars

\* the dummy write of an RMW instruction has just been made with ba_low true:
\* the byte read one call earlier went back to operand_addr unchanged
C9_Witness ==
  /\ state = "ExecuteOp" /\ instruction.is_rmw /\ ba_low
  /\ bus = << <<"W", instruction.operand_addr, instruction.rmw_buffer>> >>
  /\ mem_read_byte(mem, instruction.operand_addr) = instruction.rmw_buffer

-----------------------------------------------------------------------------
\* The stack operations on their own: pushes and pops from a chosen SP

StartSPs == {0, 1, 2, 128, 254, 255}

PushedBytes == {17, 255}

PushedWords == {4660, 65280}

InitStack ==
  /\ PC = 512 /\ P = 0 /\ A = 0 /\ X = 0 /\ Y = 0
  /\ SP \in StartSPs /\ sp0 = SP
  /\ instruction = new_instruction
  /\ ba_low = FALSE /\ cia_irq = FALSE /\ vic_irq = FALSE /\ nmi = FALSE
  /\ irq_cycles_left = 0 /\ nmi_cycles_left = 0
  /\ first_nmi_cycle = 0 /\ first_irq_cycle = 0
  /\ state = "FetchOp"
  /\ dfff_byte = 85
  /\ mem = ProgStack /\ io_on = FALSE
  /\ vic_last_byte = 0 /\ chip_byte = 0 /\ chip_cb = "None"
  /\ overflow_checks \in BOOLEAN
  /\ failure = "none"
  /\ cycle = 0 /\ booted = TRUE /\ events = 0
  /\ bus = <<>>
  /\ cia_age = 0 /\ vic_age = 0 /\ nmi_age = 0 /\ stalls = 0 /\ resumed = FALSE
  /\ stk = <<>> /\ popped = <<>> /\ before = <<>>

StackFrame ==
  UNCHANGED <<cycle, booted, events, cia_age, vic_age, nmi_age, stalls, resumed, sp0,
              before>>

PushByte ==
  /\ Running /\ Len(stk) < MaxStack
  /\ \E v \in PushedBytes :
       /\ Commit(push_byte([S EXCEPT !.bus = <<>>], v))
       /\ stk' = Append(stk, v)
  /\ popped' = <<>>
  /\ StackFrame

\* popped = <<the byte returned, the byte pushed last>>
PopByte ==
  /\ Running /\ Len(stk) >= 1
  /\ LET got(r) == Commit(r.s) /\ popped' = <<r.v, stk[Len(stk)]>>
     IN got(pop_byte([S EXCEPT !.bus = <<>>]))
  /\ stk' = SubSeq(stk, 1, Len(stk) - 1)
  /\ StackFrame

PushWord ==
  /\ Running /\ Len(stk) + 2 <= MaxStack
  /\ \E w \in PushedWords :
       /\ Commit(push_word([S EXCEPT !.bus = <<>>], w))
       /\ stk' = stk \o <<w \div 256, w % 256>>
  /\ popped' = <<>>
  /\ StackFrame

\* popped = <<the word returned, the word made of the two bytes pushed last>>
PopWord ==
  /\ Running /\ Len(stk) >= 2
  /\ LET got(r) ==
           /\ Commit(r.s)
           /\ popped' = <<r.v, stk[Len(stk)] + 256 * stk[Len(stk) - 1]>>
     IN got(pop_word([S EXCEPT !.bus = <<>>]))
  /\ stk' = SubSeq(stk, 1, Len(stk) - 2)
  /\ StackFrame

NextStack == PushByte \/ PopByte \/ PushWord \/ PopWord

SpecStack == InitStack /\ [][NextStack]_vars

\* C10: in a balanced sequence of pushes and pops every call returns, what is
\* popped is what was pushed last (bytes in reverse order, a word as the word
\* pushed), and when all that was pushed has been popped SP is back at its
\* starting value.
C10_StackBalanced ==
  /\ failure = "none"
  /\ popped # <<>> => popped[1] = popped[2]
  /\ SP = (sp0 - Len(stk)) % 256

\* the stack page $0100-$01FF
StackPage == 256..511

\* C11: the stack pointer wraps modulo 256 and no stack call fails: a push of
\* one byte writes it to $0100 + SP and leaves SP one lower, so from SP = $00
\* it writes $0100 and leaves $FF; a pop reads $0100 + (SP + 1) mod 256 and
\* leaves SP one higher, so from SP = $FF it reads $0100 and leaves $00; every
\* access of a stack call lies in $0100-$01FF.
C11_StackPointerWraps ==
  [][ /\ failure' = "none"
      /\ \A i \in 1..Len(bus') : bus'[i][2] \in StackPage
      /\ Len(stk') = Len(stk) + 1 =>
           /\ bus' = << <<"W", 256 + SP, stk'[Len(stk')]>> >>
           /\ SP' = (SP - 1) % 256
      /\ Len(stk') = Len(stk) - 1 =>
           /\ Len(bus') = 1 /\ bus'[1][1] = "R"
           /\ bus'[1][2] = 256 + ((SP + 1) % 256)
           /\ SP' = (SP + 1) % 256 ]_vars

-----------------------------------------------------------------------------
\* The instruction interpreter of cpu/opcodes.rs: Op::run and its operand
\* functions. The operand bytes are fetched from PC while the operation runs.

\* a get_operand_addr whose zero-page index addition carries into page one
op_get_operand_addr_no_wrap(s, mode) ==
  LET wide(r) == Ret(r.s, r.v)
      \* the word at nw, plus the index
      indexed(r, idx) ==
        LET sum == mem_read_word_le(r.s.mem, r.v) + idx
        IN Ret(Ov(r.s, sum > 65535), sum % 65536)
      zp_indexed(r, idx) == Ret(r.s, r.v + idx)
      relative(r) ==
        LET sum == AsI16(r.s.PC) + AsI8(r.v)
        IN Ret(Ov(r.s, sum > 32767 \/ sum < -32768), sum % 65536)
      indirect(r) == Ret(r.s, mem_read_word_le(r.s.mem, r.v))
      indirect_y(r) ==
        LET sum == mem_read_word_le(r.s.mem, mem_read_word_le(r.s.mem, r.v)) + r.s.Y
        IN Ret(Ov(r.s, sum > 65535), sum % 65536)
  IN CASE mode = "Implied" ->
            Ret(Fail(s, "Trying to fetch operand addr in implied addr mode."), 0)
       [] mode = "Accumulator" ->
            Ret(Fail(s, "Trying to fetch operand addr in accumulator addr mode."), 0)
       [] mode = "Immediate" ->
            Ret(Fail(s, "Trying to fetch operand addr in immediate addr mode."), 0)
       [] mode = "Absolute" -> next_word(s)
       [] mode = "AbsoluteIndexedX" -> indexed(next_word(s), s.X)
       [] mode = "AbsoluteIndexedY" -> indexed(next_word(s), s.Y)
       [] mode = "Zeropage" -> wide(next_byte(s))
       [] mode = "ZeropageIndexedX" -> zp_indexed(next_byte(s), s.X)
       [] mode = "ZeropageIndexedY" -> zp_indexed(next_byte(s), s.Y)
       [] mode = "Relative" -> relative(next_byte(s))
       [] mode = "Indirect" -> indirect(next_word(s))
       [] mode = "IndexedIndirectX" -> indirect(zp_indexed(next_byte(s), s.X))
       [] mode = "IndirectIndexedY" -> indirect_y(next_byte(s))

\* get_operand_addr
op_get_operand_addr(s, mode) ==
  LET wide(r) == Ret(r.s, r.v)
      \* the word at nw, plus the index
      indexed(r, idx) ==
        LET sum == mem_read_word_le(r.s.mem, r.v) + idx
        IN Ret(Ov(r.s, sum > 65535), sum % 65536)
      zp_indexed(r, idx) == Ret(r.s, (r.v + idx) % 256)
      relative(r) ==
        LET sum == AsI16(r.s.PC) + AsI8(r.v)
        IN Ret(Ov(r.s, sum > 32767 \/ sum < -32768), sum % 65536)
      indirect(r) == Ret(r.s, mem_read_word_le(r.s.mem, r.v))
      indirect_y(r) ==
        LET sum == mem_read_word_le(r.s.mem, mem_read_word_le(r.s.mem, r.v)) + r.s.Y
        IN Ret(Ov(r.s, sum > 65535), sum % 65536)
  IN CASE mode = "Implied" ->
            Ret(Fail(s, "Trying to fetch operand addr in implied addr mode."), 0)
       [] mode = "Accumulator" ->
            Ret(Fail(s, "Trying to fetch operand addr in accumulator addr mode."), 0)
       [] mode = "Immediate" ->
            Ret(Fail(s, "Trying to fetch operand addr in immediate addr mode."), 0)
       [] mode = "Absolute" -> next_word(s)
       [] mode = "AbsoluteIndexedX" -> indexed(next_word(s), s.X)
       [] mode = "AbsoluteIndexedY" -> indexed(next_word(s), s.Y)
       [] mode = "Zeropage" -> wide(next_byte(s))
       [] mode = "ZeropageIndexedX" -> zp_indexed(next_byte(s), s.X)
       [] mode = "ZeropageIndexedY" -> zp_indexed(next_byte(s), s.Y)
       [] mode = "Relative" -> relative(next_byte(s))
       [] mode = "Indirect" -> indirect(next_word(s))
       [] mode = "IndexedIndirectX" -> indirect(zp_indexed(next_byte(s), s.X))
       [] mode = "IndirectIndexedY" -> indirect_y(next_byte(s))

\* get_operand
op_get_operand(s, mode) ==
  LET load(r) == IF Failed(r.s) THEN Ret(r.s, 0)
                 ELSE Ret(r.s, mem_read_byte(r.s.mem, r.v))
  IN CASE mode = "Implied" ->
            Ret(Fail(s, "Trying to fetch operand in implied addr mode."), 0)
       [] mode = "Accumulator" -> Ret(s, s.A)
       [] mode = "Immediate" -> next_byte(s)
       [] OTHER -> load(op_get_operand_addr(s, mode))

\* set_operand
op_set_operand(s, mode, value) ==
  LET store(r) == IF Failed(r.s) THEN r.s
                  ELSE [r.s EXCEPT !.mem = mem_write_byte(@, r.v, value)]
  IN IF Failed(s) THEN s
     ELSE CASE mode = "Implied" ->
                 Fail(s, "Trying to set operand in implied addr mode.")
            [] mode = "Accumulator" -> [s EXCEPT !.A = value]
            [] mode = "Immediate" ->
                 Fail(s, "Trying to set operand in immediate addr mode.")
            [] mode = "Relative" ->
                 Fail(s, "Trying to set operand in relative addr mode.")
            [] OTHER -> store(op_get_operand_addr(s, mode))

\* the V flag as Op::run computes it for ADC and SBC
op_is_overflow(a, res, v) ==
  And8(Xor8(a, res), 128) # 0 /\ And8(Xor8(a, v), 128) = 128

\* a compare that sets Carry only when the register is above the operand
op_compare_strict(r, reg) ==
  set_zn_flags(set_status_flag(r.s, FlagCarry, reg - r.v > 0),
               (reg - r.v) % 256)

\* Op::run, the body of CMP / CPX / CPY: r.v is the operand, reg the register
op_compare(r, reg) ==
  set_zn_flags(set_status_flag(r.s, FlagCarry, reg - r.v >= 0),
               (reg - r.v) % 256)

\* a rotate right that shifts in 0 whatever Carry holds
op_ror_drops_carry(v, c) == v \div 2

\* Op::run, the result byte of ROR: v the operand, c the Carry before
op_ror(v, c) == Or8(v \div 2, IF c THEN 128 ELSE 0)

\* an HLT that does nothing
op_halt_continues(s) == s

\* Op::run, the HLT arm: panic!("Received HLT instruction at ...")
op_halt(s) == Fail(s, "Received HLT instruction")

\* Op::run
Op_run(s, op, addr_mode) ==
  LET c == get_status_flag(s, FlagCarry)
      settle(t) == IF Failed(t) THEN Fail(s, t.failure) ELSE t
      load(r, reg) == set_zn_flags([r.s EXCEPT ![reg] = r.v], r.v)
      move(t, reg, v) == set_zn_flags([t EXCEPT ![reg] = v], v)
      PLP(r) == [r.s EXCEPT !.P = Or8(r.v, 32)]
      AND(r) == load(Ret(r.s, And8(r.s.A, r.v)), "A")
      EOR(r) == load(Ret(r.s, Xor8(r.s.A, r.v)), "A")
      ORA(r) == load(Ret(r.s, Or8(r.s.A, r.v)), "A")
      BIT(r) == set_status_flag(
                  set_status_flag(
                    set_status_flag(r.s, FlagNegative, And8(r.v, 128) # 0),
                    FlagOverflow, And8(r.v, 64) # 0),
                  FlagZero, And8(r.v, r.s.A) = 0)
      ADC(r) ==
        LET sum == r.s.A + r.v + (IF get_status_flag(r.s, FlagCarry) THEN 1 ELSE 0)
            res == sum % 256
        IN set_zn_flags(
             [set_status_flag(
                set_status_flag(r.s, FlagCarry, And8(sum \div 256, 1) # 0),
                FlagOverflow, op_is_overflow(r.s.A, res, r.v))
              EXCEPT !.A = res], res)
      SBC(r) ==
        LET d1 == r.s.A - r.v
            borrow == IF get_status_flag(r.s, FlagCarry) THEN 0 ELSE 1
            d2 == (d1 % 65536) - borrow
            wide == d2 % 65536
            res == wide % 256
        IN set_zn_flags(
             [set_status_flag(
                set_status_flag(Ov(r.s, d1 < 0 \/ d2 < 0),
                                FlagCarry, And8(wide \div 256, 1) = 0),
                FlagOverflow, op_is_overflow(r.s.A, res, r.v))
              EXCEPT !.A = res], res)
      INC(r) ==
        LET v == (r.v - 1) % 256
        IN set_zn_flags(op_set_operand(Ov(r.s, r.v - 1 < 0), addr_mode, v), v)
      step(t, reg, v) == set_zn_flags([t EXCEPT ![reg] = v % 256], v % 256)
      shift(r, carry, res) ==
        set_zn_flags(
          op_set_operand(set_status_flag(r.s, FlagCarry, carry), addr_mode, res),
          res)
      ASL(r) == shift(r, And8(r.v, 128) # 0, (r.v * 2) % 256)
      LSR(r) == shift(r, And8(r.v, 128) # 0, r.v \div 2)
      ROL(r) == shift(r, And8(r.v, 128) # 0,
                      Or8((r.v * 2) % 256, IF c THEN 1 ELSE 0))
      ROR(r) == shift(r, And8(r.v, 1) # 0, op_ror(r.v, c))
      JMP(r) == [r.s EXCEPT !.PC = r.v]
      JSR(r) ==
        [push_word(Ov(r.s, r.s.PC - 1 < 0), (r.s.PC - 1) % 65536)
           EXCEPT !.PC = r.v]
      RTS(r) == [Ov(r.s, r.v + 1 > 65535) EXCEPT !.PC = (r.v + 1) % 65536]
      branch(r, flag, value) ==
        IF get_status_flag(r.s, flag) = value THEN [r.s EXCEPT !.PC = r.v] ELSE r.s
      BRK(b) ==
        LET vector(w) == [w EXCEPT !.PC = mem_read_word_le(w.mem, IRQ_VECTOR)]
        IN set_status_flag(
             vector(push_byte(push_word(Ov(b, b.PC + 2 > 65535),
                                        (b.PC + 2) % 65536), b.P)),
             FlagInterruptDisable, TRUE)
      RTI(p) ==
        LET ret(w) == [w.s EXCEPT !.P = Or8(p.v, 32), !.PC = w.v]
        IN ret(pop_word(p.s))
  IN settle(
     CASE op = "LDA" -> load(op_get_operand(s, addr_mode), "A")
       [] op = "LDX" -> load(op_get_operand(s, addr_mode), "X")
       [] op = "LDY" -> load(op_get_operand(s, addr_mode), "Y")
       [] op = "STA" -> op_set_operand(s, addr_mode, s.A)
       [] op = "STX" -> op_set_operand(s, addr_mode, s.X)
       [] op = "STY" -> op_set_operand(s, addr_mode, s.Y)
       [] op = "TAX" -> move(s, "X", s.A)
       [] op = "TAY" -> move(s, "Y", s.A)
       [] op = "TXA" -> move(s, "A", s.X)
       [] op = "TYA" -> move(s, "A", s.Y)
       [] op = "TSX" -> move(s, "X", s.SP)
       [] op = "TXS" -> [s EXCEPT !.SP = s.X]
       [] op = "PHA" -> push_byte(s, s.A)
       [] op = "PHP" -> push_byte(s, s.P)
       [] op = "PLA" -> load(pop_byte(s), "A")
       [] op = "PLP" -> PLP(pop_byte(s))
       [] op = "AND" -> AND(op_get_operand(s, addr_mode))
       [] op = "EOR" -> EOR(op_get_operand(s, addr_mode))
       [] op = "ORA" -> ORA(op_get_operand(s, addr_mode))
       [] op = "BIT" -> BIT(op_get_operand(s, addr_mode))
       [] op = "ADC" -> ADC(op_get_operand(s, addr_mode))
       [] op = "SBC" -> SBC(op_get_operand(s, addr_mode))
       [] op = "CMP" -> op_compare(op_get_operand(s, addr_mode), s.A)
       [] op = "CPX" -> op_compare(op_get_operand(s, addr_mode), s.X)
       [] op = "CPY" -> op_compare(op_get_operand(s, addr_mode), s.Y)
       [] op = "INC" -> INC(op_get_operand(s, addr_mode))
       [] op = "INX" -> step(s, "X", s.X + 1)
       [] op = "INY" -> step(s, "Y", s.Y + 1)
       [] op = "DEX" -> step(s, "X", s.X - 1)
       [] op = "DEY" -> step(s, "Y", s.Y - 1)
       [] op = "ASL" -> ASL(op_get_operand(s, addr_mode))
       [] op = "LSR" -> LSR(op_get_operand(s, addr_mode))
       [] op = "ROL" -> ROL(op_get_operand(s, addr_mode))
       [] op = "ROR" -> ROR(op_get_operand(s, addr_mode))
       [] op = "JMP" -> JMP(op_get_operand_addr(s, addr_mode))
       [] op = "JSR" -> JSR(op_get_operand_addr(s, addr_mode))
       [] op = "RTS" -> RTS(pop_word(s))
       [] op = "BCC" -> branch(op_get_operand_addr(s, addr_mode), FlagCarry, FALSE)
       [] op = "BCS" -> branch(op_get_operand_addr(s, addr_mode), FlagCarry, TRUE)
       [] op = "BEQ" -> branch(op_get_operand_addr(s, addr_mode), FlagZero, TRUE)
       [] op = "BMI" -> branch(op_get_operand_addr(s, addr_mode), FlagNegative, TRUE)
       [] op = "BNE" -> branch(op_get_operand_addr(s, addr_mode), FlagZero, FALSE)
       [] op = "BPL" -> branch(op_get_operand_addr(s, addr_mode), FlagNegative, FALSE)
       [] op = "BVC" -> branch(op_get_operand_addr(s, addr_mode), FlagOverflow, FALSE)
       [] op = "BVS" -> branch(op_get_operand_addr(s, addr_mode), FlagOverflow, TRUE)
       [] op = "CLC" -> set_status_flag(s, FlagCarry, FALSE)
       [] op = "CLD" -> set_status_flag(s, FlagDecimalMode, FALSE)
       [] op = "CLI" -> set_status_flag(s, FlagInterruptDisable, FALSE)
       [] op = "CLV" -> set_status_flag(s, FlagOverflow, FALSE)
       [] op = "SEC" -> set_status_flag(s, FlagCarry, TRUE)
       [] op = "SED" -> set_status_flag(s, FlagDecimalMode, TRUE)
       [] op = "SEI" -> set_status_flag(s, FlagInterruptDisable, TRUE)
       [] op = "BRK" -> BRK(set_status_flag(s, FlagBreak, TRUE))
       [] op = "NOP" -> s
       [] op = "RTI" -> RTI(pop_byte(s))
       [] op = "HLT" -> op_halt(s)
       [] OTHER -> s)

-----------------------------------------------------------------------------
\* Single instructions of the interpreter, run from a chosen register file

MaxOps == 4

\* address of the instruction under test ($8000)
OpBase == 32768

\* BRK PLP RTI | ADC# SBC# CMP# CPX# CPY# | JSR RTS PHA PLA |
\* STA zp,X  STX zp,Y  LDA zp,X  LDX zp,Y | JMP (ind)  JMP abs | NOP
TestedOpcodes ==
  {0, 40, 64, 105, 233, 201, 224, 192, 32, 96, 72, 104,
   149, 150, 181, 182, 108, 76, 234}

Samples == {0, 1, 80, 127, 128, 205, 254, 255}

IndexSamples == {0, 16, 128, 255}

StatusSamples == {0, 1, 162, 255}

\* page zero holds a different byte at every address
ZeroPage == [a \in 0..255 |-> (3 * a + 7) % 256]

\* $8000: the instruction, its operand bytes v and $AB ($10 for JMP (ind))
\* $01FD: v, $34, $12 below SP = $FC
\* $AB00 + sample: RTS, but $ABCD: PHA; PLA; RTS
\* $1000: $56   $10FF: $34   $1100: $12   IRQ vector: $0300
OpImage(opcode, v) ==
  Image(OpBase, <<opcode, v, IF opcode = 108 THEN 16 ELSE 171>>) @@
  Image(509, <<v, 52, 18>>) @@
  Image(43981, <<72, 104, 96>>) @@
  [a \in {43776 + b : b \in Samples} |-> 96] @@
  Image(4096, <<86>>) @@ Image(4351, <<52, 18>>) @@
  ZeroPage @@
  Vectors(0, 3, 0, 128, 0, 3)

InitOp ==
  /\ PC = OpBase /\ SP = 252 /\ sp0 = SP
  /\ P \in StatusSamples /\ A \in Samples
  /\ X \in IndexSamples /\ Y = (X + 128) % 256
  /\ instruction = new_instruction
  /\ ba_low = FALSE /\ cia_irq = FALSE /\ vic_irq = FALSE /\ nmi = FALSE
  /\ irq_cycles_left = 0 /\ nmi_cycles_left = 0
  /\ first_nmi_cycle = 0 /\ first_irq_cycle = 0
  /\ state = "FetchOp"
  /\ dfff_byte = 85
  /\ \E opcode \in TestedOpcodes, v \in Samples : mem = OpImage(opcode, v)
  /\ io_on = FALSE
  /\ vic_last_byte = 0 /\ chip_byte = 0 /\ chip_cb = "None"
  /\ overflow_checks \in BOOLEAN
  /\ failure = "none"
  /\ cycle = 0 /\ booted = TRUE /\ events = 0
  /\ bus = <<>>
  /\ cia_age = 0 /\ vic_age = 0 /\ nmi_age = 0 /\ stalls = 0 /\ resumed = FALSE
  /\ stk = <<>> /\ popped = <<>> /\ before = <<>>

\* the instruction at PC: the opcode byte is fetched and decoded, then run
run_instruction(s) ==
  LET decoded(r) ==
        LET go(ins) ==
              IF ins = None THEN Fail(r.s, "Can't fetch instruction")
              ELSE Op_run(r.s, ins.op, ins.addr_mode)
        IN go(get_instruction(r.v))
  IN decoded(next_byte(s))

\* the decode-table entry of the instruction at PC
OpAt == get_instruction(mem_read_byte(mem, PC))

\* stk = <<address of the JSR, SP before it>> of the calls not yet returned from
RunOp ==
  /\ Running /\ cycle < MaxOps
  /\ Commit(run_instruction([S EXCEPT !.bus = <<>>]))
  /\ before' = [PC |-> PC, SP |-> SP, P |-> P, A |-> A, X |-> X, Y |-> Y,
                mem |-> mem, op |-> OpAt.op, addr_mode |-> OpAt.addr_mode]
  /\ stk' = CASE OpAt.op = "JSR" -> Append(stk, <<PC, SP>>)
              [] OpAt.op = "RTS" /\ stk # <<>> -> SubSeq(stk, 1, Len(stk) - 1)
              [] OTHER -> stk
  /\ cycle' = cycle + 1
  /\ popped' = <<>>
  /\ UNCHANGED <<booted, events, cia_age, vic_age, nmi_age, stalls, resumed, sp0>>

NextOp == RunOp

SpecOp == InitOp /\ [][NextOp]_vars

\* C12: after every execution of PLP, BRK or RTI, whatever P was before and
\* whatever byte lay on the stack, bit 5 (Unused) of P is 1.
C12_UnusedBitSet ==
  [][ OpAt.op \in {"PLP", "BRK", "RTI"} /\ failure' = "none" =>
        And8(P', FlagUnused) = FlagUnused ]_vars

-----------------------------------------------------------------------------
\* The host calling reset() again while the machine runs

ResetAgain ==
  /\ Running /\ booted /\ events < MaxEvents
  /\ Commit(reset([S EXCEPT !.bus = <<>>])) /\ Ages(S, FALSE)
  /\ events' = events + 1
  /\ UNCHANGED <<cycle, booted, stalls, resumed, sp0, stk, popped, before>>

NextReset == Reset \/ Update \/ ResetAgain

SpecReset == Init /\ [][NextReset]_vars

\* a call of reset(): the only steps of SpecReset that keep the cycle index
IsReset == cycle' = cycle

\* C13: whenever reset() is called, at power-on or after any sequence of
\* update calls, PC afterwards is the little-endian word at $FFFC/$FFFD and
\* SP is $FF.
C13_ResetLoadsPcAndSp ==
  [][ IsReset =>
        /\ failure' = "none"
        /\ PC' = mem_read_byte(mem, 65532) + 256 * mem_read_byte(mem, 65533)
        /\ SP' = 255 ]_vars

-----------------------------------------------------------------------------
\* Decoding: every opcode byte as the first instruction after reset

\* $0200: the opcode byte, then $10, $02
InitDecode ==
  /\ PC = 0 /\ SP = 255 /\ P = 0 /\ A = 0 /\ X = 0 /\ Y = 0
  /\ instruction = new_instruction
  /\ ba_low = FALSE /\ cia_irq = FALSE /\ vic_irq = FALSE /\ nmi = FALSE
  /\ irq_cycles_left = 0 /\ nmi_cycles_left = 0
  /\ first_nmi_cycle = 0 /\ first_irq_cycle = 0
  /\ state = "FetchOp"
  /\ dfff_byte = 85
  /\ \E b \in 0..255 : mem = Image(512, <<b, 16, 2>>) @@ Vectors(0, 3, 0, 2, 0, 3)
  /\ io_on = FALSE
  /\ vic_last_byte = 0 /\ chip_byte = 0 /\ chip_cb = "None"
  /\ overflow_checks \in BOOLEAN
  /\ failure = "none"
  /\ cycle = 0 /\ booted = FALSE /\ events = 0
  /\ bus = <<>>
  /\ cia_age = 0 /\ vic_age = 0 /\ nmi_age = 0 /\ stalls = 0 /\ resumed = FALSE
  /\ sp0 = 255 /\ stk = <<>> /\ popped = <<>> /\ before = <<>>

\* the first instruction has run to its end
FirstDone == cycle > 0 /\ state = "FetchOp"

\* the host calls update until the first instruction is complete
UpdateFirst == ~FirstDone /\ Update

NextDecode == Reset \/ UpdateFirst

SpecDecode == InitDecode /\ [][NextDecode]_vars

\* the opcode bytes that decode to NOP
NopBytes == {b \in 0..255 : get_instruction(b) # None /\ get_instruction(b).op = "NOP"}

\* documented length in bytes of the NOP opcodes of the 6510: one byte for the
\* implied forms, two for the immediate, zero-page and zero-page,X forms,
\* three for the absolute and absolute,X forms
NopLength(b) ==
  CASE b \in {234, 26, 58, 90, 122, 218, 250} -> 1
    [] b \in {128, 130, 137, 194, 226} -> 2
    [] b \in {4, 68, 100} -> 2
    [] b \in {20, 52, 84, 116, 212, 244} -> 2
    [] b \in {12, 28, 60, 92, 124, 220, 252} -> 3

\* C14: get_instruction has an entry for every byte 0..255, so FetchOp never
\* ends in "Can't fetch instruction", whatever the memory holds; and an
\* instruction that is a NOP variant leaves PC advanced by its documented
\* length.
C14_DecodeTotal ==
  /\ \A b \in 0..255 : get_instruction(b) # None
  /\ failure # "Can't fetch instruction"
  /\ FirstDone /\ mem[512] \in NopBytes => PC = 512 + NopLength(mem[512])

-----------------------------------------------------------------------------
\* Vocabulary of the instruction properties

\* the operand byte of the immediate instruction at PC
ImmediateOperand == mem_read_byte(mem, (PC + 1) % 65536)

\* an instruction with an immediate operand is at PC
RunsImmediate(op) == OpAt.op = op /\ OpAt.addr_mode = "Immediate"

BinaryMode == Bit(P, 3) = 0

\* Z and N of P' are those of the byte res
ZeroNegativeOf(res) == Bit(P', 1) = (IF res = 0 THEN 1 ELSE 0) /\ Bit(P', 7) = Bit(res, 7)

\* C15: in binary mode ADC leaves A = (A + v + C) mod 256, Carry = bit 8 of
\* the sum, Overflow = 1 exactly when A and v have the same sign bit and the
\* result's sign bit differs from A's, and Z, N of the 8-bit result; so
\* A = $50, C = 0, ADC #$50 gives A = $A0, C = 0, V = 1, N = 1, Z = 0.
C15_AdcResult ==
  [][ RunsImmediate("ADC") /\ BinaryMode =>
        LET v == ImmediateOperand
            sum == A + v + Bit(P, 0)
            res == sum % 256
        IN /\ failure' = "none"
           /\ A' = res
           /\ Bit(P', 0) = Bit(sum, 8)
           /\ Bit(P', 6) = 1 <=> (Bit(A, 7) = Bit(v, 7) /\ Bit(res, 7) # Bit(A, 7))
           /\ ZeroNegativeOf(res) ]_vars

\* C16: in binary mode SBC completes without arithmetic failure for every A,
\* v and C, also where A < v, and leaves A = (A - v - (1 - C)) mod 256 with
\* Carry = 1 exactly when no borrow occurred (A >= v + (1 - C)).
C16_SbcResult ==
  [][ RunsImmediate("SBC") /\ BinaryMode =>
        LET v == ImmediateOperand
            borrow == 1 - Bit(P, 0)
        IN /\ failure' = "none"
           /\ A' = (A - v - borrow) % 256
           /\ Bit(P', 0) = 1 <=> A >= v + borrow ]_vars

\* C17: CMP (r = A), CPX (r = X) and CPY (r = Y) set Carry = (r >= v),
\* Zero = (r = v), Negative = bit 7 of (r - v) mod 256, and leave A, X, Y, SP
\* and the other flags unchanged.
C17_CompareFlags ==
  [][ \A c \in {<<"CMP", A>>, <<"CPX", X>>, <<"CPY", Y>>} :
        RunsImmediate(c[1]) =>
          LET r == c[2]
              v == ImmediateOperand
          IN /\ failure' = "none"
             /\ Bit(P', 0) = 1 <=> r >= v
             /\ Bit(P', 1) = 1 <=> r = v
             /\ Bit(P', 7) = Bit((r - v) % 256, 7)
             /\ \A n \in 2..6 : Bit(P', n) = Bit(P, n)
             /\ <<A, X, Y, SP>>' = <<A, X, Y, SP>> ]_vars

\* CPX #$80 has run with X = $10: Carry 0, Zero 0, Negative 1 ($10 - $80 = $90)
C17_Witness ==
  /\ before # <<>> /\ before.op = "CPX" /\ before.X = 16
  /\ before.mem[32769] = 128
  /\ failure = "none" /\ cycle = 1
  /\ Bit(P, 0) = 0 /\ Bit(P, 1) = 0 /\ Bit(P, 7) = 1 /\ X = 16

\* the bus writes of b, in order
WriteSeq(b) == SelectSeq(b, LAMBDA e : e[1] = "W")

\* C18: a JSR at address a with target t pushes the high byte, then the low
\* byte of a + 2 and sets PC = t; an RTS run with the stack balanced since
\* that JSR sets PC = a + 3 and leaves SP as it was before the JSR
\* (JSR $ABCD at $8000 pushes $80, $02; the RTS gives PC = $8003).
C18_JsrRts ==
  [][ /\ OpAt.op = "JSR" =>
           LET ret == (PC + 2) % 65536
           IN /\ failure' = "none"
              /\ WriteSeq(bus') = << <<"W", 256 + SP, ret \div 256>>,
                                     <<"W", 256 + ((SP - 1) % 256), ret % 256>> >>
              /\ SP' = (SP - 2) % 256
              /\ PC' = mem_read_byte(mem, (PC + 1) % 65536)
                         + 256 * mem_read_byte(mem, (PC + 2) % 65536)
      /\ OpAt.op = "RTS" /\ stk # <<>> /\ SP = (stk[Len(stk)][2] - 2) % 256 =>
           /\ failure' = "none"
           /\ PC' = (stk[Len(stk)][1] + 3) % 65536
           /\ SP' = stk[Len(stk)][2] ]_vars

\* JSR $ABCD at $8000, PHA, PLA, RTS: back at $8003 with SP = $FC, and $80, $02
\* lie where the JSR pushed them
C18_Witness ==
  /\ cycle = 4 /\ failure = "none"
  /\ before # <<>> /\ before.op = "RTS" /\ before.PC = 43983
  /\ mem[32768] = 32 /\ mem[32769] = 205
  /\ PC = 32771 /\ SP = 252
  /\ mem[508] = 128 /\ mem[507] = 2

\* the operand byte b of the two-byte instruction at PC
OperandByte == mem_read_byte(mem, (PC + 1) % 65536)

\* C19: the effective address of ZeropageIndexedX / ZeropageIndexedY is
\* (b + i) mod 256 for every operand byte b and index i (X or Y), always in
\* page zero: a store writes there and nowhere else, a load reads there;
\* b = $FE, X = $10 gives $000E, not $010E.
C19_ZeropageIndexWraps ==
  [][ /\ \A c \in {<<"STA", "ZeropageIndexedX", X, A>>, <<"STX", "ZeropageIndexedY", Y, X>>} :
           OpAt.op = c[1] /\ OpAt.addr_mode = c[2] =>
             /\ failure' = "none"
             /\ mem' = mem_write_byte(mem, (OperandByte + c[3]) % 256, c[4])
      /\ OpAt.op = "LDA" /\ OpAt.addr_mode = "ZeropageIndexedX" =>
           /\ failure' = "none"
           /\ A' = mem_read_byte(mem, (OperandByte + X) % 256)
      /\ OpAt.op = "LDX" /\ OpAt.addr_mode = "ZeropageIndexedY" =>
           /\ failure' = "none"
           /\ X' = mem_read_byte(mem, (OperandByte + Y) % 256) ]_vars

\* STA $FE,X has run with X = $10 and A = $50: $000E holds $50, $010E nothing
C19_Witness ==
  /\ cycle = 1 /\ failure = "none"
  /\ before # <<>> /\ before.op = "STA" /\ before.addr_mode = "ZeropageIndexedX"
  /\ before.mem[32769] = 254 /\ before.X = 16 /\ before.A = 80
  /\ before.mem[14] # 80 /\ mem[14] = 80 /\ 270 \notin DOMAIN mem

\* C20: JMP (Indirect) through a pointer whose low byte is $FF takes the low
\* byte of the target from the pointer and the high byte from the start of
\* the same page: JMP ($10FF) reads $10FF and $1000, not $1100.
C20_IndirectJmpPageWrap ==
  [][ OpAt.op = "JMP" /\ OpAt.addr_mode = "Indirect" /\ OperandByte = 255 =>
        LET pointer == 255 + 256 * mem_read_byte(mem, (PC + 2) % 65536)
        IN /\ failure' = "none"
           /\ PC' = mem_read_byte(mem, pointer)
                      + 256 * mem_read_byte(mem, pointer - 255) ]_vars

-----------------------------------------------------------------------------
\* Shifts and rotates of the accumulator, for every byte

\* everything of the machine that the interpreter leaves alone, and the
\* bookkeeping of a run that has not started
InterpreterStart ==
  /\ instruction = new_instruction
  /\ ba_low = FALSE /\ cia_irq = FALSE /\ vic_irq = FALSE /\ nmi = FALSE
  /\ irq_cycles_left = 0 /\ nmi_cycles_left = 0
  /\ first_nmi_cycle = 0 /\ first_irq_cycle = 0
  /\ state = "FetchOp"
  /\ dfff_byte = 85
  /\ io_on = FALSE
  /\ vic_last_byte = 0 /\ chip_byte = 0 /\ chip_cb = "None"
  /\ failure = "none"
  /\ cycle = 0 /\ booted = TRUE /\ events = 0
  /\ bus = <<>>
  /\ cia_age = 0 /\ vic_age = 0 /\ nmi_age = 0 /\ stalls = 0 /\ resumed = FALSE
  /\ stk = <<>> /\ popped = <<>> /\ before = <<>>

\* ROL A; ROR A   ROR A; ROL A   LSR A   ASL A
ShiftPrograms == {<<42, 106>>, <<106, 42>>, <<74>>, <<10>>}

InitShift ==
  /\ PC = OpBase /\ SP = 252 /\ sp0 = SP
  /\ P \in StatusSamples /\ A \in 0..255 /\ X = 0 /\ Y = 0
  /\ \E p \in ShiftPrograms : mem = Image(OpBase, p)
  /\ overflow_checks \in BOOLEAN
  /\ InterpreterStart

SpecShift == InitShift /\ [][NextOp]_vars

\* the instruction at PC works on the accumulator
RunsOnAccumulator(op) == OpAt.op = op /\ OpAt.addr_mode = "Accumulator"

\* the instruction run last worked on the accumulator
RanOnAccumulator(op) ==
  before # <<>> /\ before.op = op /\ before.addr_mode = "Accumulator"

\* C21: ROL then ROR on the accumulator holding b, with Carry c before the
\* first and the Carry of the first handed to the second, leaves A = b and
\* Carry = c, for every byte b and both c; likewise ROR then ROL.
C21_RotateRoundTrip ==
  [][ \A pair \in {<<"ROL", "ROR">>, <<"ROR", "ROL">>} :
        RanOnAccumulator(pair[1]) /\ RunsOnAccumulator(pair[2]) =>
          /\ failure' = "none"
          /\ A' = before.A
          /\ Bit(P', 0) = Bit(before.P, 0) ]_vars

\* ROL A; ROR A has run from A = $81 with Carry 1: in between A = $03 with
\* Carry 1, at the end A = $81 with Carry 1
C21_Witness ==
  /\ cycle = 2 /\ failure = "none"
  /\ mem[32768] = 42 /\ RanOnAccumulator("ROR")
  /\ before.A = 3 /\ Bit(before.P, 0) = 1
  /\ A = 129 /\ Bit(P, 0) = 1

\* C29: LSR produces v >> 1 and sets Carry to bit 0 of v; ASL produces
\* (v << 1) mod 256 and sets Carry to bit 7 of v; Z and N are those of the
\* result, for every operand byte v.
C29_ShiftResult ==
  [][ /\ RunsOnAccumulator("LSR") =>
           /\ failure' = "none"
           /\ A' = A \div 2
           /\ Bit(P', 0) = Bit(A, 0)
           /\ ZeroNegativeOf(A \div 2)
      /\ RunsOnAccumulator("ASL") =>
           /\ failure' = "none"
           /\ A' = (2 * A) % 256
           /\ Bit(P', 0) = Bit(A, 7)
           /\ ZeroNegativeOf((2 * A) % 256) ]_vars

-----------------------------------------------------------------------------
\* Every opcode byte as the instruction the interpreter runs first

OperandLows == {0, 1, 167, 254}

OperandHighs == {171, 255}

\* $8000: the opcode byte and its operand bytes lo, hi; the stack bytes,
\* subroutines, pointers, page zero and vectors are those of OpImage
AllOpsImage(opcode, lo, hi) ==
  Image(OpBase, <<opcode, lo, hi>>) @@ OpImage(opcode, lo)

InitAllOps ==
  /\ PC = OpBase /\ SP = 252 /\ sp0 = SP
  /\ P = 0 /\ A = 80
  /\ X \in IndexSamples /\ Y = (X + 128) % 256
  /\ \E opcode \in 0..255, lo \in OperandLows, hi \in OperandHighs :
       mem = AllOpsImage(opcode, lo, hi)
  /\ overflow_checks \in BOOLEAN
  /\ InterpreterStart

SpecAllOps == InitAllOps /\ [][NextOp]_vars

\* the opcode bytes the claim lists as HLT
HltBytes == {2, 18, 34, 50, 66, 82, 98, 114, 146, 178, 210, 242}

HltFailure == "Received HLT instruction"

\* C22: an opcode that decodes to HLT ($02, $12, $22, $32, $42, $52, $62, $72,
\* $92, $B2, $D2, $F2) ends the run in the fatal HLT error: the following
\* instruction is not run; no other opcode ends in that error.
C22_HltIsFatal ==
  [][ /\ mem_read_byte(mem, PC) \in HltBytes <=> OpAt.op = "HLT"
      /\ OpAt.op = "HLT" => failure' = HltFailure
      /\ failure # HltFailure
      /\ failure' = HltFailure => OpAt.op = "HLT" ]_vars

\* HLT $B2 at $8000 has ended the run; PC stands behind the opcode byte
C22_Witness ==
  /\ failure = HltFailure /\ cycle = 1
  /\ before # <<>> /\ before.op = "HLT" /\ before.mem[32768] = 178
  /\ ~ENABLED RunOp

\* the operand word of the three-byte instruction at PC
OperandWord == OperandByte + 256 * mem_read_byte(mem, (PC + 2) % 65536)

\* the little-endian word held at the page-zero address p
ZeropageWord(p) == mem_read_byte(mem, p) + 256 * mem_read_byte(mem, (p + 1) % 256)

\* a store of A is at PC, in the given addressing mode
StoresA(mode) == OpAt.op = "STA" /\ OpAt.addr_mode = mode

\* C30: the effective address of AbsoluteIndexedX / AbsoluteIndexedY is
\* (operand word + X or Y) mod 65536, that of IndirectIndexedY is (the word
\* held at the page-zero pointer + Y) mod 65536, whatever the operands, the
\* index and the memory hold: a store writes there.
C30_IndexedAddress ==
  [][ /\ StoresA("AbsoluteIndexedX") =>
           /\ failure' = "none"
           /\ mem' = mem_write_byte(mem, (OperandWord + X) % 65536, A)
      /\ StoresA("AbsoluteIndexedY") =>
           /\ failure' = "none"
           /\ mem' = mem_write_byte(mem, (OperandWord + Y) % 65536, A)
      /\ StoresA("IndirectIndexedY") =>
           /\ failure' = "none"
           /\ mem' = mem_write_byte(mem, (ZeropageWord(OperandByte) + Y) % 65536, A) ]_vars

-----------------------------------------------------------------------------
\* The bus dispatcher on its own: reads and writes at chosen addresses

MaxBus == 2

\* $0010, and the two ends of every range of the dispatcher:
\* $CFFF $D000 $D3FF $D400 $D800 $DBFF $DC00 $DCFF $DD00 $DDFF $DE00 $DF00
\* $DFFF $E000
BusAddrs ==
  {16, 53247, 53248, 54271, 54272, 55296, 56319, 56320, 56575, 56576, 56831,
   56832, 57088, 57343, 57344}

BusValues == {90, 243}

\* what the chips answer and signal on their next register access
ChipAnswers == {<<"None", 129>>, <<"TriggerCIAIrq", 129>>, <<"ClearNMI", 0>>}

InitBus ==
  /\ PC = 0 /\ SP = 255 /\ sp0 = SP /\ P = 0 /\ A = 0 /\ X = 0 /\ Y = 0
  /\ instruction = new_instruction
  /\ ba_low = FALSE
  /\ \E l \in BOOLEAN : cia_irq = l /\ vic_irq = l /\ nmi = l
  /\ irq_cycles_left = 0 /\ nmi_cycles_left = 0
  /\ first_nmi_cycle = 0 /\ first_irq_cycle = 0
  /\ state = "FetchOp"
  /\ dfff_byte = 85
  /\ mem = Image(55296, <<175>>) @@ Image(57343, <<60>>)
  /\ io_on \in BOOLEAN
  /\ vic_last_byte = 197
  /\ \E c \in ChipAnswers : chip_cb = c[1] /\ chip_byte = c[2]
  /\ overflow_checks \in BOOLEAN
  /\ failure = "none"
  /\ cycle = 0 /\ booted = TRUE /\ events = 0
  /\ bus = <<>>
  /\ cia_age = 0 /\ vic_age = 0 /\ nmi_age = 0 /\ stalls = 0 /\ resumed = FALSE
  /\ stk = <<>> /\ popped = <<>> /\ before = <<>>

BusFrame ==
  /\ cycle' = cycle + 1
  /\ UNCHANGED <<booted, events, cia_age, vic_age, nmi_age, stalls, resumed,
                 sp0, stk, before>>

\* popped = <<the byte returned>>
BusRead ==
  /\ Running /\ cycle < MaxBus
  /\ \E addr \in BusAddrs :
       LET got(r) == Commit(r.s) /\ popped' = <<r.v>>
       IN got(read_byte([S EXCEPT !.bus = <<>>], addr))
  /\ BusFrame

BusWrite ==
  /\ Running /\ cycle < MaxBus
  /\ \E addr \in BusAddrs, value \in BusValues :
       Commit(write_byte([S EXCEPT !.bus = <<>>], addr, value))
  /\ popped' = <<>>
  /\ BusFrame

\* the memory controller switches the I/O overlay
SwitchIo ==
  /\ Running /\ cycle < MaxBus
  /\ Commit([S EXCEPT !.io_on = ~@, !.bus = <<>>])
  /\ popped' = <<>>
  /\ BusFrame

NextBus == BusRead \/ BusWrite \/ SwitchIo

SpecBus == InitBus /\ [][NextBus]_vars

\* the access a bus step has made: <<"R" or "W", address, byte read or written>>
Access == bus'[1]

IsAccess == Len(bus') = 1

InIoArea(addr) == addr >= 53248 /\ addr <= 57343    \* $D000-$DFFF

InChipRegisters(addr) == InVIC(addr) \/ InCIA1(addr) \/ InCIA2(addr)

Latches == <<cia_irq, vic_irq, nmi>>

\* the access went to RAM through the memory controller and nowhere else
WentToRam ==
  /\ Access[1] = "R" => Access[3] = mem_read_byte(mem, Access[2]) /\ mem' = mem
  /\ Access[1] = "W" => mem' = mem_write_byte(mem, Access[2], Access[3])
  /\ Latches' = Latches /\ dfff_byte' = dfff_byte

\* the access went to a chip register: a read returns the chip's answer (no
\* RAM byte of these runs equals it), RAM is left alone, and the signal of a
\* CIA is applied to the latches
WentToChip ==
  /\ Access[1] = "R" => Access[3] = chip_byte /\ Access[3] # mem_read_byte(mem, Access[2])
  /\ mem' = mem
  /\ chip_cb = "TriggerCIAIrq" /\ ~InVIC(Access[2]) => cia_irq'
  /\ chip_cb = "ClearNMI" /\ ~InVIC(Access[2]) => ~nmi'

\* C23: read_byte and write_byte reach the VIC-II ($D000-$D3FF), CIA1
\* ($DC00-$DCFF) or CIA2 ($DD00-$DDFF) registers exactly when io_on is true;
\* with io_on false every address in $D000-$DFFF is read from and written to
\* RAM, no chip is reached, and neither an interrupt latch nor dfff_byte
\* changes.
C23_IoOverlay ==
  [][ IsAccess =>
        /\ failure' = "none"
        /\ InChipRegisters(Access[2]) /\ io_on => WentToChip
        /\ InIoArea(Access[2]) /\ ~io_on => WentToRam ]_vars

\* with io_on false a read of $DC00 has returned the RAM byte $5A written
\* there before, not the CIA's answer, and has left the latches alone
\* although the CIA would have raised its interrupt
C23_Witness ==
  /\ cycle = 2 /\ ~io_on /\ failure = "none"
  /\ chip_cb = "TriggerCIAIrq" /\ ~cia_irq
  /\ bus = << <<"R", 56320, 90>> >> /\ popped = <<90>>
  /\ mem[56320] = 90 /\ chip_byte # 90

\* what a read of color RAM returns: low nibble of RAM, high nibble of the
\* byte the VIC-II fetched last
ColorNibble(addr) == Or8(And8(mem_read_byte(mem, addr), 15), And8(vic_last_byte, 240))

\* C24: at every address in $D800-$DBFF write_byte stores only the low
\* nibble of the value and read_byte returns
\* (mem[addr] & $0F) | (vic.last_byte & $F0), for every value and every
\* setting of io_on.
C24_ColorRamNibble ==
  [][ IsAccess /\ InColorRAM(Access[2]) =>
        /\ failure' = "none"
        /\ Access[1] = "W" =>
             mem' = mem_write_byte(mem, Access[2], And8(Access[3], 15))
        /\ Access[1] = "R" => Access[3] = ColorNibble(Access[2]) ]_vars

\* C24, amended: with io_on true, at every address in $D800-$DBFF write_byte
\* stores only the low nibble of the value and read_byte returns
\* (mem[addr] & $0F) | (vic.last_byte & $F0); with io_on false the address is
\* plain RAM: the whole byte is stored and the whole byte is returned.
C24_ColorRamNibbleWhenIoOn ==
  [][ IsAccess /\ InColorRAM(Access[2]) =>
        /\ failure' = "none"
        /\ Access[1] = "W" =>
             mem' = mem_write_byte(mem, Access[2],
                                   IF io_on THEN And8(Access[3], 15) ELSE Access[3])
        /\ Access[1] = "R" =>
             /\ Access[3] = IF io_on THEN ColorNibble(Access[2])
                            ELSE mem_read_byte(mem, Access[2])
             /\ mem' = mem ]_vars

\* with io_on true $F3 was written to $D800 and read back: RAM holds $03, the
\* read returned $C3 (high nibble of the VIC-II's last byte $C5)
C24_Witness ==
  /\ cycle = 2 /\ io_on /\ failure = "none"
  /\ mem[55296] = 3
  /\ bus = << <<"R", 55296, 195>> >> /\ popped = <<195>>

\* the step is a read of $DFFF with the I/O overlay on
ReadsDfff == IsAccess /\ Access[1] = "R" /\ Access[2] = 57343 /\ io_on

\* C25: dfff_byte is always $55 or $AA, $55 at first; a read_byte($DFFF) with
\* io_on true complements it and returns the new value, so successive such
\* reads alternate between the two; reads with io_on false, reads of other
\* addresses and all writes leave it unchanged.
C25_DfffToggles ==
  [][ /\ dfff_byte \in {85, 170} /\ dfff_byte' \in {85, 170}
      /\ ReadsDfff => dfff_byte' = 255 - dfff_byte /\ Access[3] = dfff_byte'
      /\ ~ReadsDfff => dfff_byte' = dfff_byte ]_vars

\* two reads of $DFFF with io_on true: the first returned $AA, the second $55
C25_Witness ==
  /\ cycle = 2 /\ io_on /\ failure = "none"
  /\ bus = << <<"R", 57343, 85>> >> /\ popped = <<85>> /\ dfff_byte = 85

-----------------------------------------------------------------------------
\* The acknowledgement sequences, sub-cycle by sub-cycle

\* the update call performs sub-cycle k of the IRQ (NMI) sequence
IrqSubCycle(k) == irq_cycles_left = k /\ irq_cycles_left' = k - 1

NmiSubCycle(k) == nmi_cycles_left = k /\ nmi_cycles_left' = k - 1

AckSubCycle(k) == IrqSubCycle(k) \/ NmiSubCycle(k)

\* the call pushes the byte v and does nothing else to the stack
PushesOnly(v) ==
  bus' = << <<"W", 256 + SP, v>> >> /\ SP' = (SP - 1) % 256

\* P when the interrupt arrives: Break and InterruptDisable clear or set
AckStatus == {0, 16, 20, 48}

\* $0200: NOP; NOP; ...      $0300: RTI (IRQ)      $0310: RTI (NMI)
ProgIdle ==
  Image(768, <<64>>) @@ Image(784, <<64>>) @@ Vectors(16, 3, 0, 2, 0, 3)

\* the machine after reset, between two instructions of a program that has
\* loaded P
InitAck ==
  /\ PC = 512 /\ SP \in {255, 1} /\ sp0 = SP
  /\ P \in AckStatus /\ A = 0 /\ X = 0 /\ Y = 0
  /\ instruction = new_instruction
  /\ ba_low = FALSE /\ cia_irq = FALSE /\ vic_irq = FALSE /\ nmi = FALSE
  /\ irq_cycles_left = 0 /\ nmi_cycles_left = 0
  /\ first_nmi_cycle = 0 /\ first_irq_cycle = 0
  /\ state = "FetchOp"
  /\ dfff_byte = 85
  /\ mem = ProgIdle /\ io_on = FALSE
  /\ vic_last_byte = 0 /\ chip_byte = 0 /\ chip_cb = "None"
  /\ overflow_checks \in BOOLEAN
  /\ failure = "none"
  /\ cycle = 0 /\ booted = TRUE /\ events = 0
  /\ bus = <<>>
  /\ cia_age = 0 /\ vic_age = 0 /\ nmi_age = 0 /\ stalls = 0 /\ resumed = FALSE
  /\ stk = <<>> /\ popped = <<>> /\ before = <<>>

\* the host ticks the CPU once per bus cycle; `before` keeps what the tick
\* started from
AckUpdate ==
  /\ Running /\ booted /\ cycle < MaxCycle
  /\ LET ticked(t) == Commit(t) /\ Ages(t, TRUE)
     IN ticked(update([S EXCEPT !.bus = <<>>], cycle))
  /\ cycle' = cycle + 1
  /\ stalls' = IF ba_low /\ (state = "FetchOp" \/ stalls > 0)
                THEN (IF stalls < StallCap THEN stalls + 1 ELSE stalls)
                ELSE 0
  /\ resumed' = (stalls > 0 /\ ~ba_low)
  /\ before' = [state |-> state, ba_low |-> ba_low, P |-> P, PC |-> PC,
                cia_irq |-> cia_irq, vic_irq |-> vic_irq, nmi |-> nmi,
                irq_cycles_left |-> irq_cycles_left,
                nmi_cycles_left |-> nmi_cycles_left]
  /\ UNCHANGED <<booted, events, sp0, stk, popped>>

NextAck == AckUpdate \/ SetBaLow \/ SetCiaIrq \/ SetVicIrq \/ SetNmi

SpecAck == InitAck /\ [][NextAck]_vars

\* C26: an acknowledgement sequence pushes exactly three bytes, PC high, PC
\* low, then P, taking SP down by 3, and sets InterruptDisable only after P
\* was pushed; the P pushed by the IRQ sequence has Break clear; the NMI
\* sequence pushes P with Break as it was and leaves Break alone.
C26_AckPushes ==
  [][ /\ AckSubCycle(5) => PushesOnly(PC \div 256) /\ P' = P
      /\ AckSubCycle(4) => PushesOnly(PC % 256) /\ P' = P
      /\ IrqSubCycle(3) =>
           /\ PushesOnly(P - 16 * Bit(P, 4))
           /\ P' = Or8(P - 16 * Bit(P, 4), FlagInterruptDisable)
      /\ NmiSubCycle(3) =>
           /\ PushesOnly(P)
           /\ P' = Or8(P, FlagInterruptDisable)
      /\ \A k \in {7, 6, 2, 1} : AckSubCycle(k) =>
           /\ WriteSeq(bus') = <<>> /\ SP' = SP
           /\ k # 1 => P' = P ]_vars

\* the NMI sequence has just pushed P = $10: the byte on the stack has Break
\* set and InterruptDisable clear, P now has both set
C26_Witness ==
  /\ state = "ProcessNMI" /\ nmi_cycles_left = 2 /\ failure = "none"
  /\ bus = << <<"W", 256 + ((SP + 1) % 256), 16>> >>
  /\ P = 20 /\ SP = (sp0 - 3) % 256


\* C27: while an acknowledgement sequence runs with ba_low true, an update at
\* remaining count 7, 6 or 2 leaves the count unchanged, and an update at any
\* other count (5, 4, 3 and 1) decrements it.
C27_BaLowStallsReadsOnly ==
  [][ (IsUpdate /\ ba_low /\ failure' = "none") =>
        /\ state = "ProcessIRQ" =>
             irq_cycles_left' = IF irq_cycles_left \in {7, 6, 2}
                                THEN irq_cycles_left ELSE irq_cycles_left - 1
        /\ state = "ProcessNMI" =>
             nmi_cycles_left' = IF nmi_cycles_left \in {7, 6, 2}
                                THEN nmi_cycles_left ELSE nmi_cycles_left - 1 ]_vars

\* C27, amended: with ba_low true an update at remaining count 7, 6, 2 or 1
\* leaves the count unchanged, and an update at one of the pushes (5, 4, 3)
\* decrements it.
C27_BaLowStallsAllButPushes ==
  [][ (IsUpdate /\ ba_low /\ failure' = "none") =>
        /\ state = "ProcessIRQ" =>
             irq_cycles_left' = IF irq_cycles_left \in {7, 6, 2, 1}
                                THEN irq_cycles_left ELSE irq_cycles_left - 1
        /\ state = "ProcessNMI" =>
             nmi_cycles_left' = IF nmi_cycles_left \in {7, 6, 2, 1}
                                THEN nmi_cycles_left ELSE nmi_cycles_left - 1 ]_vars

\* an update of the NMI sequence at remaining count 1 was made with ba_low
\* true and left the count at 1 and PC off the handler
C27_Witness ==
  /\ before # <<>> /\ before.state = "ProcessNMI" /\ before.ba_low
  /\ before.nmi_cycles_left = 1
  /\ state = "ProcessNMI" /\ nmi_cycles_left = 1 /\ PC # 784
  /\ failure = "none"

\* C28: BRK at address a sets Break, pushes the word a+2 high byte first, then
\* pushes P with Break set and InterruptDisable as it was, then sets
\* InterruptDisable and loads PC from the word at $FFFE.
C28_BrkPushesReturnAddress ==
  [][ (OpAt.op = "BRK" /\ failure' = "none") =>
        /\ WriteSeq(bus') =
             << <<"W", 256 + SP, ((PC + 2) % 65536) \div 256>>,
                <<"W", 256 + ((SP - 1) % 256), (PC + 2) % 256>>,
                <<"W", 256 + ((SP - 2) % 256), Or8(P, FlagBreak)>> >>
        /\ SP' = (SP - 3) % 256
        /\ P' = Or8(Or8(P, FlagBreak), FlagInterruptDisable)
        /\ PC' = mem_read_word_le(mem, IRQ_VECTOR) ]_vars


-----------------------------------------------------------------------------
\* Increments and decrements

\* an instruction op on a memory operand in mode Zeropage or Absolute is at PC
RunsOnMemory(op) == OpAt.op = op /\ OpAt.addr_mode \in {"Zeropage", "Absolute"}

\* the address its operand bytes name
DirectAddress == IF OpAt.addr_mode = "Zeropage" THEN OperandByte ELSE OperandWord

\* the byte at the operand address becomes res, with Z and N of res
StoresResult(res) ==
  /\ failure' = "none"
  /\ mem' = mem_write_byte(mem, DirectAddress, res)
  /\ ZeroNegativeOf(res)

\* C31: INC stores (v + 1) mod 256 and DEC stores (v - 1) mod 256 at the
\* operand address, v being the byte there, with Z and N of the stored byte;
\* INX, INY, DEX and DEY do the same on the register, wrapping $FF -> $00 and
\* $00 -> $FF without failure.
C31_IncDec ==
  [][ /\ RunsOnMemory("INC") =>
           StoresResult((mem_read_byte(mem, DirectAddress) + 1) % 256)
      /\ RunsOnMemory("DEC") =>
           StoresResult((mem_read_byte(mem, DirectAddress) - 1) % 256)
      /\ OpAt.op = "INX" =>
           failure' = "none" /\ X' = (X + 1) % 256 /\ ZeroNegativeOf((X + 1) % 256)
      /\ OpAt.op = "INY" =>
           failure' = "none" /\ Y' = (Y + 1) % 256 /\ ZeroNegativeOf((Y + 1) % 256)
      /\ OpAt.op = "DEX" =>
           failure' = "none" /\ X' = (X - 1) % 256 /\ ZeroNegativeOf((X - 1) % 256)
      /\ OpAt.op = "DEY" =>
           failure' = "none" /\ Y' = (Y - 1) % 256 /\ ZeroNegativeOf((Y - 1) % 256) ]_vars


-----------------------------------------------------------------------------
\* Branches run by the interpreter, from both halves of the address space

\* BPL, BMI, BVC, BVS, BCC, BCS, BNE, BEQ
BranchOpcodes == {16, 48, 80, 112, 144, 176, 208, 240}

\* offsets 0, +5, +127, -128, -3, -2
BranchOffsets == {0, 5, 127, 128, 253, 254}

BranchBases == {512, OpBase}

InitBranch ==
  /\ PC \in BranchBases /\ SP = 252 /\ sp0 = SP
  /\ P \in StatusSamples /\ A = 80 /\ X = 0 /\ Y = 0
  /\ \E opcode \in BranchOpcodes, d \in BranchOffsets :
       mem = Image(PC, <<opcode, d>>)
  /\ overflow_checks \in BOOLEAN
  /\ InterpreterStart

SpecBranch == InitBranch /\ [][NextOp]_vars

\* a branch instruction is at PC
RunsBranch == OpAt.addr_mode = "Relative"

\* the flag condition of the branch at PC holds
BranchCondition ==
  CASE OpAt.op = "BPL" -> Bit(P, 7) = 0
    [] OpAt.op = "BMI" -> Bit(P, 7) = 1
    [] OpAt.op = "BVC" -> Bit(P, 6) = 0
    [] OpAt.op = "BVS" -> Bit(P, 6) = 1
    [] OpAt.op = "BCC" -> Bit(P, 0) = 0
    [] OpAt.op = "BCS" -> Bit(P, 0) = 1
    [] OpAt.op = "BNE" -> Bit(P, 1) = 0
    [] OpAt.op = "BEQ" -> Bit(P, 1) = 1
    [] OTHER -> FALSE

\* opcode and operand byte are each fetched once, and nothing else
FetchesTwoBytes ==
  bus' = << <<"R", PC, mem_read_byte(mem, PC)>>,
            <<"R", (PC + 1) % 65536, OperandByte>> >>

\* C32: a branch at address a with signed offset d leaves PC = (a + 2 + d)
\* mod 65536 when its flag condition holds and PC = a + 2 otherwise; its
\* operand byte is fetched once and nothing but PC changes.
C32_BranchTarget ==
  [][ RunsBranch =>
        /\ failure' = "none"
        /\ PC' = IF BranchCondition
                 THEN (PC + 2 + AsI8(OperandByte)) % 65536
                 ELSE (PC + 2) % 65536
        /\ FetchesTwoBytes
        /\ UNCHANGED <<A, X, Y, SP, P, mem>> ]_vars


-----------------------------------------------------------------------------
\* Read-modify-write instructions of the interpreter

\* number of operand bytes of the direct mode at PC
DirectSize == IF OpAt.addr_mode = "Zeropage" THEN 1 ELSE 2

\* the opcode and the operand bytes are fetched in order, each once
FetchesInstructionOnce ==
  bus' = [i \in 1..(1 + DirectSize) |->
            <<"R", (PC + i - 1) % 65536, mem_read_byte(mem, (PC + i - 1) % 65536)>>]

\* C33: ASL, LSR, ROL, ROR and INC on a memory operand write their result to
\* the address the operand was read from, and the operand bytes of the
\* instruction are fetched from PC exactly once.
C33_RmwSameAddress ==
  [][ \A op \in {"ASL", "LSR", "ROL", "ROR", "INC"} :
        RunsOnMemory(op) =>
          /\ failure' = "none"
          /\ \E v \in 0..255 : mem' = mem_write_byte(mem, DirectAddress, v)
          /\ FetchesInstructionOnce
          /\ PC' = (PC + 1 + DirectSize) % 65536 ]_vars


-----------------------------------------------------------------------------
\* Bus accesses per tick

\* C34: every update call performs at most one byte-wide bus access, in every
\* state, the FetchOp of a Relative-mode instruction and the vector fetch of
\* an interrupt sequence included.
C34_OneAccessPerUpdate ==
  [][ IsUpdate => Len(bus') <= 1 ]_vars


-----------------------------------------------------------------------------
\* Instruction lengths

\* number of operand bytes of an addressing mode
OperandSize(mode) ==
  CASE mode \in {"Implied", "Accumulator"} -> 0
    [] mode \in {"Immediate", "Zeropage", "ZeropageIndexedX", "ZeropageIndexedY",
                 "IndexedIndirectX", "IndirectIndexedY", "Relative"} -> 1
    [] mode \in {"Absolute", "AbsoluteIndexedX", "AbsoluteIndexedY", "Indirect"} -> 2

\* the instruction at PC may set PC to something else than the next instruction
ControlFlow ==
  \/ OpAt.op \in {"JMP", "JSR", "RTS", "RTI", "BRK", "HLT"}
  \/ RunsBranch /\ BranchCondition

\* C35: an instruction at address a that is no JMP, JSR, RTS, RTI, BRK, taken
\* branch or HLT leaves PC = a + 1 + the operand size of its addressing mode,
\* for every opcode byte; LDA #v leaves A = v with Z and N of v, so LDA #$00
\* leaves A = $00, Z = 1, N = 0 and PC advanced by 2.
C35_PcAdvance ==
  [][ /\ (~ControlFlow /\ failure' = "none") =>
           PC' = (PC + 1 + OperandSize(OpAt.addr_mode)) % 65536
      /\ RunsImmediate("LDA") =>
           /\ failure' = "none"
           /\ A' = OperandByte /\ ZeroNegativeOf(OperandByte)
           /\ PC' = (PC + 2) % 65536 ]_vars


-----------------------------------------------------------------------------
\* Operations paired with addressing modes they cannot use

\* the failures of an operand access in a mode that has no such access
InvalidMicrostate ==
  {"Trying to fetch operand addr in implied addr mode.",
   "Trying to fetch operand addr in accumulator addr mode.",
   "Trying to fetch operand addr in immediate addr mode.",
   "Trying to fetch operand in implied addr mode.",
   "Trying to set operand in implied addr mode.",
   "Trying to set operand in immediate addr mode.",
   "Trying to set operand in relative addr mode."}

\* C36: whatever opcode byte is run, the decoded operation never asks for an
\* operand, an operand store or an operand address in an addressing mode
\* (Implied, Accumulator, Immediate, Relative) for which that is a failure.
C36_NoInvalidMicrostate == failure \notin InvalidMicrostate


-----------------------------------------------------------------------------
\* The counters of the acknowledgement sequences

\* the counters agree with the state
CountersMatchState ==
  /\ state = "ProcessIRQ" => irq_cycles_left \in 1..7 /\ nmi_cycles_left = 0
  /\ state = "ProcessNMI" => nmi_cycles_left \in 1..7 /\ irq_cycles_left = 0
  /\ state \notin {"ProcessIRQ", "ProcessNMI"} =>
       irq_cycles_left = 0 /\ nmi_cycles_left = 0
  /\ failure \notin {"Invalid IRQ cycle", "Invalid NMI cycle"}

\* a counter stays, goes down by one, or starts a sequence at 7 and, unless
\* the first sub-cycle stalls, is at 6 when the same call returns
CounterStep(n, after) ==
  \/ after = n
  \/ after = n - 1
  \/ n = 0 /\ state = "FetchOp" /\ after \in {6, 7}

\* C37: state = ProcessIRQ implies irq_cycles_left in 1..7, state = ProcessNMI
\* implies nmi_cycles_left in 1..7, in every other state both counters are 0,
\* the counters are never non-zero together, the failures "Invalid IRQ cycle"
\* and "Invalid NMI cycle" are never reached, and a counter of a running
\* sequence only ever goes down by 1 per update call.
C37_CountersInRange ==
  /\ []CountersMatchState
  /\ [][ /\ CounterStep(irq_cycles_left, irq_cycles_left')
         /\ CounterStep(nmi_cycles_left, nmi_cycles_left')
         /\ ~IsUpdate => UNCHANGED <<irq_cycles_left, nmi_cycles_left>> ]_vars

\* the NMI sequence is at its last sub-cycle with the IRQ latch set too
C37_Witness ==
  /\ state = "ProcessNMI" /\ nmi_cycles_left = 1 /\ irq_cycles_left = 0
  /\ cia_irq /\ nmi /\ failure = "none"


-----------------------------------------------------------------------------
\* The latches when an acknowledgement sequence completes

\* this step is the update call in which the IRQ / NMI sequence completes
IrqCompletes == IsUpdate /\ state = "ProcessIRQ" /\ state' = "FetchOp"
NmiCompletes == IsUpdate /\ state = "ProcessNMI" /\ state' = "FetchOp"

\* C38: the completion of an IRQ acknowledgement sequence leaves cia_irq and
\* vic_irq both false, whichever of them were set when it started or were set
\* while it ran; the completion of an NMI sequence leaves nmi false and
\* cia_irq and vic_irq as they were.
C38_CompletionClearsLatches ==
  [][ /\ IrqCompletes => ~cia_irq' /\ ~vic_irq' /\ nmi' = nmi
      /\ NmiCompletes => ~nmi' /\ cia_irq' = cia_irq /\ vic_irq' = vic_irq ]_vars

\* an IRQ sequence has just completed with both latches set at its last
\* sub-cycle; both are clear now
C38_Witness ==
  /\ before # <<>> /\ before.state = "ProcessIRQ" /\ before.irq_cycles_left = 1
  /\ before.cia_irq /\ before.vic_irq
  /\ state = "FetchOp" /\ irq_cycles_left = 0
  /\ ~cia_irq /\ ~vic_irq /\ failure = "none"


-----------------------------------------------------------------------------
\* An NMI that arrives while an IRQ is being acknowledged

\* the address the IRQ vector holds
IrqTarget == mem_read_word_le(mem, IRQ_VECTOR)

\* the update call before this one completed an IRQ sequence
IrqJustCompleted ==
  before # <<>> /\ before.state = "ProcessIRQ" /\ state = "FetchOp"

\* C39: an NMI set while an IRQ acknowledgement sequence runs does not
\* interrupt it; once the 2-cycle delay has elapsed, the first update call
\* after the IRQ sequence completes starts the NMI sequence with PC still at
\* the IRQ vector target and no instruction of the handler fetched, and that
\* target is the PC the NMI sequence pushes.
C39_NmiAfterIrq ==
  [][ IsUpdate =>
        /\ state = "ProcessIRQ" =>
             state' \in {"ProcessIRQ", "FetchOp"} /\ nmi_cycles_left' = 0
        /\ (IrqJustCompleted /\ nmi /\ nmi_age >= SettleDelay) =>
             /\ state' = "ProcessNMI" /\ nmi_cycles_left' \in {6, 7}
             /\ PC = IrqTarget /\ PC' = PC /\ instruction' = instruction
        /\ (state = "ProcessNMI" /\ PC = IrqTarget) =>
             /\ NmiSubCycle(5) => PushesOnly(IrqTarget \div 256)
             /\ NmiSubCycle(4) => PushesOnly(IrqTarget % 256)
             /\ nmi_cycles_left > 1 => PC' = PC ]_vars

\* the NMI sequence that followed the IRQ sequence has pushed $03, $00, the
\* IRQ vector target, below the three bytes the IRQ sequence pushed
C39_Witness ==
  /\ state = "ProcessNMI" /\ nmi_cycles_left = 3 /\ PC = IrqTarget
  /\ sp0 = 255 /\ SP = 250
  /\ mem_read_byte(mem, 508) = 3 /\ mem_read_byte(mem, 507) = 0
  /\ bus = << <<"W", 507, 0>> >> /\ failure = "none"


-----------------------------------------------------------------------------
\* The host loop running for ever: each bus cycle the video chip sets ba_low,
\* then the CPU is ticked

\* $0200: JMP $0200      $0300: RTI (IRQ)      $0310: RTI (NMI)
ProgLoop ==
  Image(512, <<76, 0, 2>>) @@
  Image(768, <<64>>) @@ Image(784, <<64>>) @@ Vectors(16, 3, 0, 2, 0, 3)

InitLive ==
  /\ PC = 512 /\ SP \in {255, 1} /\ sp0 = SP
  /\ P = 0 /\ A = 0 /\ X = 0 /\ Y = 0
  /\ mem = ProgLoop
  /\ overflow_checks \in BOOLEAN
  /\ InterpreterStart

\* one bus cycle; update compares the cycle count with 2 only, so past
\* MaxCycle the count is folded back to 2
LiveCycle ==
  /\ Running /\ booted
  /\ \E b \in BOOLEAN :
       /\ LET ticked(t) == Commit(t) /\ Ages(t, TRUE)
          IN ticked(update([S EXCEPT !.ba_low = b, !.bus = <<>>], cycle))
       /\ before' = [state |-> state, ba_low |-> b, P |-> P, PC |-> PC,
                     cia_irq |-> cia_irq, vic_irq |-> vic_irq, nmi |-> nmi,
                     irq_cycles_left |-> irq_cycles_left,
                     nmi_cycles_left |-> nmi_cycles_left]
  /\ cycle' = IF cycle < MaxCycle THEN cycle + 1 ELSE SettleDelay
  /\ UNCHANGED <<booted, events, stalls, resumed, sp0, stk, popped>>

NextLive == LiveCycle \/ SetCiaIrq \/ SetNmi

\* this step is a bus cycle of the host loop
IsCycle == events' = events

\* The host loop never stops ticking while the program runs. This is
\* WF_vars(LiveCycle) written out: LiveCycle is enabled exactly while the
\* program runs, and the steps of NextLive that
\* leave events alone are the LiveCycle steps, each of which changes cycle.
HostKeepsTicking == []<>(~Running) \/ []<><<IsCycle>>_vars

SpecLive == InitLive /\ [][NextLive]_vars /\ HostKeepsTicking

InSequence == state \in {"ProcessIRQ", "ProcessNMI"}

\* the counter of the sequence that runs
CyclesLeft == irq_cycles_left + nmi_cycles_left

\* C40: if update keeps being called and ba_low is false infinitely often, an
\* acknowledgement sequence that has started completes and the state is
\* FetchOp again; with ba_low false at every call, the call that starts the
\* sequence leaves 6 sub-cycles and every later call one less, 7 calls in
\* all; a call at a read sub-cycle with ba_low true changes nothing, so the
\* sequence never completes while ba_low stays true.
C40_SequenceCompletes ==
  /\ ([]<>(~ba_low) /\ [](failure = "none")) => (InSequence ~> state = "FetchOp")
  /\ [][ (IsCycle /\ failure' = "none") =>
           /\ (~ba_low' /\ ~InSequence /\ InSequence') => CyclesLeft' = 6
           /\ (~ba_low' /\ InSequence) =>
                /\ CyclesLeft' = CyclesLeft - 1
                /\ InSequence' <=> CyclesLeft > 1
                /\ ~InSequence' => state' = "FetchOp"
           /\ (ba_low' /\ InSequence /\ CyclesLeft \in {7, 6, 2, 1}) =>
                UNCHANGED <<state, irq_cycles_left, nmi_cycles_left, PC, SP, P, mem>> ]_vars

\* an NMI set before the first cycle was acknowledged at the first FetchOp
\* with cycle >= 2 and its sequence completed 7 calls later
C40_Witness ==
  /\ state = "FetchOp" /\ PC = 784 /\ cycle = 9
  /\ before # <<>> /\ before.state = "ProcessNMI" /\ before.nmi_cycles_left = 1
  /\ ~nmi /\ failure = "none"

====
